---- MODULE Spec2Model ----
(***************************************************************************)
(* REMI+ codec of ECP2023_2_data_processing: the token decoder             *)
(* (remi2midi.py), the token encoder (midi2remi.py) and the chord          *)
(* recognition engine (chord_recognition.py).                              *)
(*                                                                         *)
(* A token is the Python string "<name>_<value>".  It is kept as a record  *)
(* [name, value] where value is the sequence of the pieces of <value>      *)
(* between its separators ('_', and '/' in a time signature), each piece a *)
(* string: event.split('_')[-1] is the last piece and int() parses a       *)
(* piece.  A key test such as "Bar_" in event is the test name = "Bar";    *)
(* the vocabularies used here hold no value that contains another key.     *)
(*                                                                         *)
(* Times are seconds in units of 1/TimeScale; the tempos and signatures of *)
(* the modelled streams are those for which get_time is exact in that unit.*)
(***************************************************************************)
EXTENDS Integers, Sequences, FiniteSets, TLC

VARIABLES events, polyphony_limit, dec, remi, enc,
          chroma, chord, candidates, max_tick, dp,
          song, selected_chords, deduped

vars == <<events, polyphony_limit, dec, remi, enc,
          chroma, chord, candidates, max_tick, dp,
          song, selected_chords, deduped>>

-----------------------------------------------------------------------------
(* constants.py *)

DEFAULT_POS_PER_QUARTER == 12

\* np.linspace(0, 128, 33, dtype=int): 0, 4, 8, ..., 128
DEFAULT_VELOCITY_BINS == [k \in 1..33 |-> 4 * (k - 1)]

\* np.sort of the concatenated ranges; 21 occurs twice
DEFAULT_DURATION_BINS ==
    <<1, 2, 3, 4, 5, 6, 7, 8, 9, 10, 11, 12, 15, 17, 18, 21, 21, 24, 30, 36, 42>>
    \o [k \in 1..12 |-> 36 + 12 * k]
    \o [k \in 1..25 |-> 168 + 24 * k]

\* np.linspace(0, 240, 33, dtype=int): int(7.5 * k)
DEFAULT_TEMPO_BINS == [k \in 1..33 |-> (15 * (k - 1)) \div 2]

EOS_TOKEN == [name |-> "<eos>", value |-> <<>>]

TIME_SIGNATURE_KEY == "Time Signature"
BAR_KEY == "Bar"
POSITION_KEY == "Position"
INSTRUMENT_KEY == "Instrument"
PITCH_KEY == "Pitch"
VELOCITY_KEY == "Velocity"
DURATION_KEY == "Duration"
TEMPO_KEY == "Tempo"
CHORD_KEY == "Chord"

-----------------------------------------------------------------------------
(* Python and pretty_midi primitives the code calls *)

\* The numerals int() is asked to parse in the modelled streams.
IntLo == 0 - 1
IntHi == 127
Numerals == [n \in IntLo..IntHi |-> ToString(n)]

IsInt(s) == \E n \in IntLo..IntHi : Numerals[n] = s
\* int(s) for a string that parses
int(s) == CHOOSE n \in IntLo..IntHi : Numerals[n] = s

\* f'{n}'
str(n) == ToString(n)

\* seq[idx] of a Python sequence: 0-based, negative indices count from the end
InRange(seq, idx) == 0 - Len(seq) <= idx /\ idx < Len(seq)
At(seq, idx) == IF idx >= 0 THEN seq[idx + 1] ELSE seq[Len(seq) + idx + 1]

\* event.split('_')[-1]
LastPiece(tok) == IF tok.value = <<>> THEN tok.name ELSE tok.value[Len(tok.value)]

\* f"{KEY}_" in event
HasKey(key, tok) == tok.name = key

\* pretty_midi's General MIDI table, the rows the model uses
INSTRUMENT_MAP == [p \in {0, 24} |->
    IF p = 0 THEN "Acoustic Grand Piano" ELSE "Acoustic Guitar (nylon)"]

program_to_instrument_name(p) == INSTRUMENT_MAP[p]
KnownInstrument(nm) == \E p \in DOMAIN INSTRUMENT_MAP : INSTRUMENT_MAP[p] = nm
instrument_name_to_program(nm) == CHOOSE p \in DOMAIN INSTRUMENT_MAP : INSTRUMENT_MAP[p] = nm

\* pretty_midi.TimeSignature(num, denom, time) raises ValueError unless its
\* numerator and denominator are positive and its time is not negative
TimeSignatureOk(num, denom, time) == num > 0 /\ denom > 0 /\ time >= 0
TimeSignature(num, denom, time) == [numerator |-> num, denominator |-> denom, time |-> time]

-----------------------------------------------------------------------------
(* utils.get_time *)

\* one second, in model time units
TimeScale == 8 * 48

\* reference['time'] + d_quarters / tempo * 60 with
\* d_pos = (pos - ref_pos[1]) + d_bars * (4 * num / denom) * POS_PER_QUARTER
get_time(reference, bar, pos) ==
    LET num == reference.time_sig.numerator
        denom == reference.time_sig.denominator
        d_bars == bar - reference.pos[1]
        \* d_pos * denom
        d_pos_denom == (pos - reference.pos[2]) * denom
                       + d_bars * 4 * num * DEFAULT_POS_PER_QUARTER
    IN  reference.time
        + (d_pos_denom * 60 * TimeScale)
          \div (DEFAULT_POS_PER_QUARTER * denom * reference.tempo)

-----------------------------------------------------------------------------
(* remi2midi.remi2midi: the decoder's scan state *)

\* events[k] with Python's 0-based k
Ev(evs, k) == evs[k + 1]

\* the keyword defaults of remi2midi
DefaultBpm == 120
DefaultTimeSignature == <<4, 4>>
DefaultPolyphonyLimit == 16

\* before the first statement of remi2midi
DecIdle ==
    [pc |-> "start", i |-> 0, bar |-> 0 - 1, n_notes |-> 0,
     last_tl_event |-> [time |-> 0, pos |-> <<0, 0>>,
                        time_sig |-> TimeSignature(4, 4, 0), tempo |-> DefaultBpm],
     polyphony_control |-> <<>>,
     instruments |-> <<>>,
     initial_tempo |-> DefaultBpm,
     time_signature_changes |-> <<>>,
     raised |-> "",
     admitted |-> <<>>]

\* an exception leaves remi2midi: nothing is returned
Raise(st, exc) == [st EXCEPT !.pc = "error", !.raised = exc]

\* the for loop moves to the next index
NextIndex(st) == [st EXCEPT !.i = st.i + 1]

\* [event for event in events if "Tempo_" in event]
tempo_changes(evs) == SelectSeq(evs, LAMBDA e : HasKey(TEMPO_KEY, e))

\* lines 11-33: initial tempo, first time signature, reference frame, counters
StartStep(st, evs) ==
    LET tc == tempo_changes(evs)
        num == DefaultTimeSignature[1]
        denom == DefaultTimeSignature[2]
    IN  IF Len(tc) > 0 /\ ~IsInt(LastPiece(tc[1])) THEN Raise(st, "ValueError")
        ELSE IF Len(tc) > 0 /\ ~InRange(DEFAULT_TEMPO_BINS, int(LastPiece(tc[1])))
        THEN Raise(st, "IndexError")
        ELSE LET bpm == IF Len(tc) > 0
                        THEN At(DEFAULT_TEMPO_BINS, int(LastPiece(tc[1])))
                        ELSE DefaultBpm
                 current_time_sig == TimeSignature(num, denom, 0)
             IN  [st EXCEPT !.pc = "scan",
                            !.initial_tempo = bpm,
                            !.time_signature_changes = <<current_time_sig>>,
                            !.last_tl_event = [time |-> 0, pos |-> <<0, 0>>,
                                               time_sig |-> current_time_sig,
                                               tempo |-> bpm],
                            !.bar = 0 - 1, !.n_notes = 0, !.i = 0,
                            !.polyphony_control = <<>>, !.instruments = <<>>]

\* a re-anchor that overwrites the last recorded change instead of appending
ReanchorTimeSig_InPlace(st, bar, num, denom) ==
    LET time == get_time(st.last_tl_event, bar, 0)
    IN  IF ~TimeSignatureOk(num, denom, time) THEN Raise(st, "ValueError")
        ELSE LET time_sig == TimeSignature(num, denom, time)
             IN  [st EXCEPT !.time_signature_changes =
                                [@ EXCEPT ![Len(@)] = time_sig],
                            !.last_tl_event = [@ EXCEPT !.time = time,
                                                        !.pos = <<bar, 0>>,
                                                        !.time_sig = time_sig]]

\* lines 51-56: a changed time signature re-anchors the frame at (bar, 0)
ReanchorTimeSig(st, bar, num, denom) ==
    LET time == get_time(st.last_tl_event, bar, 0)
    IN  IF ~TimeSignatureOk(num, denom, time) THEN Raise(st, "ValueError")
        ELSE LET time_sig == TimeSignature(num, denom, time)
             IN  [st EXCEPT !.time_signature_changes = Append(@, time_sig),
                            !.last_tl_event = [@ EXCEPT !.time = time,
                                                        !.pos = <<bar, 0>>,
                                                        !.time_sig = time_sig]]

\* lines 41-56: a Bar token, with the Time Signature token that may follow it
BarStep(st, evs) ==
    LET bar == st.bar + 1
        pcl == st.polyphony_control
        st1 == [st EXCEPT !.bar = bar,
                          !.polyphony_control =
                              [k \in {k \in DOMAIN pcl : k[1] # bar} |-> pcl[k]]]
    IN  IF st.i + 1 < Len(evs) /\ HasKey(TIME_SIGNATURE_KEY, Ev(evs, st.i + 1))
        THEN LET pieces == Ev(evs, st.i + 1).value
             IN  IF Len(pieces) # 2 THEN Raise(st1, "ValueError")
                 ELSE IF ~IsInt(pieces[1]) \/ ~IsInt(pieces[2]) THEN Raise(st1, "ValueError")
                 ELSE LET num == int(pieces[1])
                          denom == int(pieces[2])
                          current_time_sig == st1.last_tl_event.time_sig
                      IN  IF num # current_time_sig.numerator
                             \/ denom # current_time_sig.denominator
                          THEN ReanchorTimeSig(st1, bar, num, denom)
                          ELSE st1
        ELSE st1

ReanchorTempo_KeepTime(st, bar, position, tempo) ==
    LET time == get_time(st.last_tl_event, bar, position)
    IN  [st EXCEPT !.last_tl_event = [@ EXCEPT !.time = @,
                                               !.pos = <<bar, position>>,
                                               !.tempo = tempo]]

\* lines 66-69: a changed tempo re-anchors the frame at (bar, position)
ReanchorTempo(st, bar, position, tempo) ==
    LET time == get_time(st.last_tl_event, bar, position)
    IN  [st EXCEPT !.last_tl_event = [@ EXCEPT !.time = time,
                                               !.pos = <<bar, position>>,
                                               !.tempo = tempo]]

TempoStep_AlwaysReanchor(st, evs) ==
    LET p == LastPiece(Ev(evs, st.i))
        t == LastPiece(Ev(evs, st.i + 1))
    IN  IF ~IsInt(p) \/ ~IsInt(t) THEN Raise(st, "ValueError")
        ELSE IF ~InRange(DEFAULT_TEMPO_BINS, int(t)) THEN Raise(st, "IndexError")
        ELSE LET position == int(p)
                 tempo == At(DEFAULT_TEMPO_BINS, int(t))
             IN  IF TRUE
                 THEN ReanchorTempo(st, st.bar, position, tempo)
                 ELSE st

\* lines 58-69: a Position token directly followed by a Tempo token
TempoStep(st, evs) ==
    LET p == LastPiece(Ev(evs, st.i))
        t == LastPiece(Ev(evs, st.i + 1))
    IN  IF ~IsInt(p) \/ ~IsInt(t) THEN Raise(st, "ValueError")
        ELSE IF ~InRange(DEFAULT_TEMPO_BINS, int(t)) THEN Raise(st, "IndexError")
        ELSE LET position == int(p)
                 tempo == At(DEFAULT_TEMPO_BINS, int(t))
             IN  IF tempo # st.last_tl_event.tempo
                 THEN ReanchorTempo(st, st.bar, position, tempo)
                 ELSE st

\* an off-by-one limit test
PolyphonyFull_Late(pcl, key, limit) == key \in DOMAIN pcl /\ pcl[key] > limit

\* lines 84-86: the instrument has an entry at (bar, position) and its count
\* has reached the limit
PolyphonyFull(pcl, key, limit) == key \in DOMAIN pcl /\ pcl[key] >= limit

\* polyphony_control[bar][position][instrument_name] after line 85 / line 117
PolyCount(pcl, key) == IF key \in DOMAIN pcl THEN pcl[key] ELSE 0
PolySet(pcl, key, n) == [k \in DOMAIN pcl \cup {key} |-> IF k = key THEN n ELSE pcl[k]]

\* lines 90-98: the instrument's track, created on first use
InstrumentIndex(insts, nm) == CHOOSE k \in 1..Len(insts) : insts[k].name = nm
HasInstrument(insts, nm) == \E k \in 1..Len(insts) : insts[k].name = nm
NewInstrument(nm) ==
    IF nm = "drum"
    THEN [name |-> nm, program |-> 0, is_drum |-> TRUE, notes |-> <<>>]
    ELSE [name |-> nm, program |-> instrument_name_to_program(nm),
          is_drum |-> FALSE, notes |-> <<>>]

\* lines 77-117: a complete Position/Instrument/Pitch/Velocity/Duration group
NoteStep(st, evs, limit) ==
    LET p == LastPiece(Ev(evs, st.i))
        instrument_name == LastPiece(Ev(evs, st.i + 1))
        pi == LastPiece(Ev(evs, st.i + 2))
        vi == LastPiece(Ev(evs, st.i + 3))
        di == LastPiece(Ev(evs, st.i + 4))
    IN  IF ~IsInt(p) THEN Raise(st, "ValueError")
        ELSE LET position == int(p)
                 key == <<st.bar, position, instrument_name>>
             IN  IF PolyphonyFull(st.polyphony_control, key, limit) THEN st
                 ELSE IF instrument_name # "drum" /\ ~HasInstrument(st.instruments, instrument_name)
                         /\ ~KnownInstrument(instrument_name)
                 THEN Raise(st, "ValueError")
                 ELSE IF ~IsInt(pi) \/ ~IsInt(vi) THEN Raise(st, "ValueError")
                 ELSE IF ~InRange(DEFAULT_VELOCITY_BINS, int(vi)) THEN Raise(st, "IndexError")
                 ELSE IF ~IsInt(di) THEN Raise(st, "ValueError")
                 ELSE IF ~InRange(DEFAULT_DURATION_BINS, int(di)) THEN Raise(st, "IndexError")
                 ELSE
                 LET insts == IF HasInstrument(st.instruments, instrument_name)
                              THEN st.instruments
                              ELSE Append(st.instruments, NewInstrument(instrument_name))
                     k == InstrumentIndex(insts, instrument_name)
                     pitch == int(pi)
                     vbin == At(DEFAULT_VELOCITY_BINS, int(vi))
                     velocity == IF vbin < 127 THEN vbin ELSE 127
                     duration == At(DEFAULT_DURATION_BINS, int(di))
                     start == get_time(st.last_tl_event, st.bar, position)
                     end == get_time(st.last_tl_event, st.bar, position + duration)
                     note == [velocity |-> velocity, pitch |-> pitch,
                              start |-> start, end |-> end]
                 IN  [st EXCEPT !.instruments = [insts EXCEPT ![k].notes = Append(@, note)],
                                !.n_notes = @ + 1,
                                !.polyphony_control =
                                    PolySet(@, key, PolyCount(@, key) + 1),
                                !.admitted = Append(@,
                                    [i |-> st.i, bar |-> st.bar, position |-> position,
                                     instrument |-> instrument_name, pitch |-> pitch,
                                     velocity |-> velocity, duration |-> duration])]

\* the conditions of the if / elif chain, lines 35, 41, 58-60, 71-76
AtEos(st, evs) == Ev(evs, st.i) = EOS_TOKEN
AtBar(st, evs) == HasKey(BAR_KEY, Ev(evs, st.i))
AtTempo(st, evs) ==
    /\ st.i + 1 < Len(evs)
    /\ HasKey(POSITION_KEY, Ev(evs, st.i))
    /\ HasKey(TEMPO_KEY, Ev(evs, st.i + 1))
AtNote(st, evs) ==
    /\ st.i + 4 < Len(evs)
    /\ HasKey(POSITION_KEY, Ev(evs, st.i))
    /\ HasKey(INSTRUMENT_KEY, Ev(evs, st.i + 1))
    /\ HasKey(PITCH_KEY, Ev(evs, st.i + 2))
    /\ HasKey(VELOCITY_KEY, Ev(evs, st.i + 3))
    /\ HasKey(DURATION_KEY, Ev(evs, st.i + 4))

\* which branch one iteration of the loop at index st.i takes
Branch(st, evs) ==
    IF st.i >= Len(evs) THEN "end"
    ELSE IF AtEos(st, evs) THEN "eos"
    ELSE IF AtBar(st, evs) THEN "bar"
    ELSE IF AtTempo(st, evs) THEN "tempo"
    ELSE IF AtNote(st, evs) THEN "note"
    ELSE "skip"

\* lines 119-121: the tracks are handed to the midi object, which is returned
ReturnStep(st) == [st EXCEPT !.pc = "done"]

\* an iteration that did not raise goes on to the next index
Continue(st) == IF st.pc = "error" THEN st ELSE NextIndex(st)

\* what the caller gets: the PrettyMIDI object, or the exception
Output(st) ==
    IF st.pc = "error" THEN [raised |-> st.raised]
    ELSE [raised |-> "",
          initial_tempo |-> st.initial_tempo,
          time_signature_changes |-> st.time_signature_changes,
          instruments |-> st.instruments]

-----------------------------------------------------------------------------
(* remi2midi.remi2midi: one step of the scan, and the whole call *)

\* one iteration of the for loop (or its end)
Step(st, evs, limit) ==
    LET b == Branch(st, evs)
    IN  IF b = "end" \/ b = "eos" THEN ReturnStep(st)
        ELSE IF b = "bar" THEN Continue(BarStep(st, evs))
        ELSE IF b = "tempo" THEN Continue(TempoStep(st, evs))
        ELSE IF b = "note" THEN Continue(NoteStep(st, evs, limit))
        ELSE NextIndex(st)

RECURSIVE Run(_, _, _)
Run(st, evs, limit) ==
    IF st.pc \in {"done", "error"} THEN st ELSE Run(Step(st, evs, limit), evs, limit)

\* remi2midi(events, polyphony_limit=limit)
remi2midi(evs, limit) == Run(StartStep(DecIdle, evs), evs, limit)

-----------------------------------------------------------------------------
(* Token streams given to the decoder *)

MaxChunks == 3
MaxLimit == 2

Tok(name, piece) == [name |-> name, value |-> <<piece>>]

\* the five tokens the encoder writes for a note (midi2remi.py lines 91-123)
NoteGroup(position, name, pitch, velocity_index, duration_index) ==
    << Tok(POSITION_KEY, str(position)),
       Tok(INSTRUMENT_KEY, name),
       [name |-> PITCH_KEY,
        value |-> IF name = "drum" THEN <<"drum", str(pitch)>> ELSE <<str(pitch)>>],
       Tok(VELOCITY_KEY, str(velocity_index)),
       Tok(DURATION_KEY, str(duration_index)) >>

\* the pieces streams are put together from: well-formed patterns, the
\* end-of-sequence token, and malformed ones
Chunks ==
    { << Tok(BAR_KEY, "1") >>,
      << Tok(BAR_KEY, "1"), [name |-> TIME_SIGNATURE_KEY, value |-> <<"3", "4">>] >>,
      << Tok(POSITION_KEY, "0"), Tok(TEMPO_KEY, "8") >>,
      << Tok(POSITION_KEY, "6"), Tok(TEMPO_KEY, "16") >>,
      NoteGroup(0, "drum", 36, 16, 11),
      NoteGroup(0, "drum", 38, 32, 5),
      NoteGroup(6, "Acoustic Grand Piano", 60, 20, 17),
      << EOS_TOKEN >>,
      << Tok(CHORD_KEY, "C:maj") >>,
      << Tok(POSITION_KEY, "0"), Tok(TEMPO_KEY, "33") >>,
      NoteGroup(0, "Kazoo", 60, 16, 11) }

RECURSIVE Flatten(_)
Flatten(cs) == IF cs = <<>> THEN <<>> ELSE Head(cs) \o Flatten(Tail(cs))

Streams == { Flatten(cs) : cs \in UNION { [1..n -> Chunks] : n \in 0..MaxChunks } }

-----------------------------------------------------------------------------
(* The decoder as a state machine *)

Idle == <<>>

Init ==
    /\ events \in Streams
    /\ polyphony_limit \in 0..MaxLimit
    /\ dec = DecIdle
    /\ remi = Idle /\ enc = Idle
    /\ chroma = Idle /\ chord = Idle /\ candidates = Idle /\ max_tick = 0 /\ dp = Idle
    /\ song = Idle /\ selected_chords = Idle /\ deduped = Idle

DecoderFrame == UNCHANGED <<events, polyphony_limit, remi, enc,
                            chroma, chord, candidates, max_tick, dp,
                   song, selected_chords, deduped>>

Start ==
    /\ dec.pc = "start"
    /\ dec' = StartStep(dec, events)
    /\ DecoderFrame

ScanEos ==
    /\ dec.pc = "scan" /\ Branch(dec, events) = "eos"
    /\ dec' = ReturnStep(dec)
    /\ DecoderFrame

ScanBar ==
    /\ dec.pc = "scan" /\ Branch(dec, events) = "bar"
    /\ dec' = Continue(BarStep(dec, events))
    /\ DecoderFrame

ScanTempo ==
    /\ dec.pc = "scan" /\ Branch(dec, events) = "tempo"
    /\ dec' = Continue(TempoStep(dec, events))
    /\ DecoderFrame

ScanNote ==
    /\ dec.pc = "scan" /\ Branch(dec, events) = "note"
    /\ dec' = Continue(NoteStep(dec, events, polyphony_limit))
    /\ DecoderFrame

ScanSkip ==
    /\ dec.pc = "scan" /\ Branch(dec, events) = "skip"
    /\ dec' = NextIndex(dec)
    /\ DecoderFrame

Return ==
    /\ dec.pc = "scan" /\ Branch(dec, events) = "end"
    /\ dec' = ReturnStep(dec)
    /\ DecoderFrame

Next == Start \/ ScanEos \/ ScanBar \/ ScanTempo \/ ScanNote \/ ScanSkip \/ Return

Spec == Init /\ [][Next]_vars

-----------------------------------------------------------------------------
(* Polyphony: what the token stream itself says, read without the decoder *)

\* the bar counter at index k: Bar tokens at indices 0..k, less one
BarAt(evs, k) == Cardinality({j \in 0..k : HasKey(BAR_KEY, Ev(evs, j))}) - 1

\* index k heads a well-formed 5-token note group
WellFormedGroup(evs, k) ==
    /\ k + 4 < Len(evs)
    /\ Ev(evs, k).name = POSITION_KEY /\ IsInt(LastPiece(Ev(evs, k)))
    /\ Ev(evs, k + 1).name = INSTRUMENT_KEY
    /\ LastPiece(Ev(evs, k + 1)) \in {"drum", "Acoustic Grand Piano", "Acoustic Guitar (nylon)"}
    /\ Ev(evs, k + 2).name = PITCH_KEY /\ IsInt(LastPiece(Ev(evs, k + 2)))
    /\ Ev(evs, k + 3).name = VELOCITY_KEY /\ IsInt(LastPiece(Ev(evs, k + 3)))
    /\ InRange(DEFAULT_VELOCITY_BINS, int(LastPiece(Ev(evs, k + 3))))
    /\ Ev(evs, k + 4).name = DURATION_KEY /\ IsInt(LastPiece(Ev(evs, k + 4)))
    /\ InRange(DEFAULT_DURATION_BINS, int(LastPiece(Ev(evs, k + 4))))

GroupKey(evs, k) ==
    <<BarAt(evs, k), int(LastPiece(Ev(evs, k))), LastPiece(Ev(evs, k + 1))>>

\* heads of the well-formed groups the scan has passed
ScannedHeads == {k \in 0..(dec.i - 1) : WellFormedGroup(events, k)}
HeadsOf(key) == {k \in ScannedHeads : GroupKey(events, k) = key}
ScannedKeys == {GroupKey(events, k) : k \in ScannedHeads}

\* heads of the groups the decoder admitted for a key
AdmittedOf(key) ==
    {dec.admitted[n].i : n \in {m \in 1..Len(dec.admitted) :
        <<dec.admitted[m].bar, dec.admitted[m].position, dec.admitted[m].instrument>> = key}}
AdmittedKeys ==
    {<<dec.admitted[m].bar, dec.admitted[m].position, dec.admitted[m].instrument>> :
        m \in 1..Len(dec.admitted)}

\* the first n elements of a set of indices
FirstN(H, n) == {k \in H : Cardinality({j \in H : j < k}) < n}

Min(a, b) == IF a < b THEN a ELSE b

RECURSIVE SumNotes(_)
SumNotes(insts) == IF insts = <<>> THEN 0 ELSE Len(Head(insts).notes) + SumNotes(Tail(insts))

\* C1: with a polyphony limit L >= 1, for every (bar, position, instrument)
\* key the notes admitted so far are exactly the first min(n, L) of the n
\* well-formed groups with that key the scan has passed, in stream order; every
\* admitted note is one note of one track and a later group is dropped
\* without an exception.
C1_FirstAdmitted ==
    polyphony_limit >= 1 =>
        /\ \A key \in ScannedKeys \cup AdmittedKeys :
              AdmittedOf(key) = FirstN(HeadsOf(key), Min(Cardinality(HeadsOf(key)), polyphony_limit))
        /\ \A m, n \in 1..Len(dec.admitted) : m < n => dec.admitted[m].i < dec.admitted[n].i
        /\ SumNotes(dec.instruments) = Len(dec.admitted)
        /\ dec.n_notes = Len(dec.admitted)

\* a key with more groups than the limit, scanned to the end without error
C1_Witness ==
    /\ dec.pc = "done" /\ polyphony_limit >= 1
    /\ \E key \in ScannedKeys :
          /\ Cardinality(HeadsOf(key)) > polyphony_limit
          /\ Cardinality(AdmittedOf(key)) = polyphony_limit

\* C2: for every limit L >= 0, after any prefix of the scan no key has more
\* than L admitted notes.
C2_NeverAboveLimit ==
    \A key \in AdmittedKeys : Cardinality(AdmittedOf(key)) <= polyphony_limit

\* C7: remi2midi never raises, whatever the token stream.
C7_NeverRaises == dec.pc # "error"

\* the stream up to and including its first end-of-sequence token
RECURSIVE UpToEos(_)
UpToEos(evs) ==
    IF evs = <<>> THEN <<>>
    ELSE IF Head(evs) = EOS_TOKEN THEN <<EOS_TOKEN>>
    ELSE <<Head(evs)>> \o UpToEos(Tail(evs))

\* C8: the output for a stream is the output for the stream cut after its
\* first end-of-sequence token.
C8_EosCutsOutput ==
    dec.pc \in {"done", "error"} =>
        Output(dec) = Output(remi2midi(UpToEos(events), polyphony_limit))

\* C9: a step that re-anchors the reference frame leaves every note already in
\* a track, and every time-signature change already recorded, as it was.
C9_ReanchorKeepsTimes ==
    [][dec.pc = "scan" /\ dec'.last_tl_event # dec.last_tl_event =>
        /\ Len(dec'.instruments) = Len(dec.instruments)
        /\ \A k \in 1..Len(dec.instruments) : dec'.instruments[k] = dec.instruments[k]
        /\ Len(dec'.time_signature_changes) >= Len(dec.time_signature_changes)
        /\ SubSeq(dec'.time_signature_changes, 1, Len(dec.time_signature_changes))
              = dec.time_signature_changes]_vars

\* a signature change re-anchored the frame in a bar after the bar of an
\* admitted note
C9_Witness ==
    /\ Len(dec.admitted) > 0
    /\ Len(dec.time_signature_changes) >= 2
    /\ dec.admitted[1].bar < dec.last_tl_event.pos[1]
    /\ dec.last_tl_event.time > 0

-----------------------------------------------------------------------------
(* chord_recognition.py: sequencing, scoring, find_chord *)

PITCH_CLASSES == <<"C", "C#", "D", "D#", "E", "F", "F#", "G", "G#", "A", "A#", "B">>

Qualities == {"maj", "min", "dim", "aug", "dom7", "maj7", "min7"}

CHORD_MAPS == [q \in Qualities |->
    CASE q = "maj" -> {0, 4}
      [] q = "min" -> {0, 3}
      [] q = "dim" -> {0, 3, 6}
      [] q = "aug" -> {0, 4, 8}
      [] q = "dom7" -> {0, 4, 10}
      [] q = "maj7" -> {0, 4, 11}
      [] q = "min7" -> {0, 3, 10}]

CHORD_INSIDERS == [q \in Qualities |->
    CASE q = "dim" -> {9}
      [] q = "aug" -> {}
      [] OTHER -> {7}]

CHORD_OUTSIDERS_1 == [q \in Qualities |->
    CASE q \in {"maj", "aug", "dom7", "maj7"} -> {2, 5, 9}
      [] q \in {"min", "min7"} -> {2, 5, 8}
      [] q = "dim" -> {2, 5, 10}]

CHORD_OUTSIDERS_2 == [q \in Qualities |->
    CASE q = "maj" -> {1, 3, 6, 8, 10, 11}
      [] q = "min" -> {1, 4, 6, 9, 11}
      [] q = "dim" -> {1, 4, 7, 8, 11}
      [] q = "aug" -> {1, 3, 6, 7, 10}
      [] q = "dom7" -> {1, 3, 6, 8, 11}
      [] q = "maj7" -> {1, 3, 6, 8, 10}
      [] q = "min7" -> {1, 4, 6, 9, 11}]

\* find_chord's default threshold
Threshold == 10

RECURSIVE SumSeq(_)
SumSeq(xs) == IF xs = <<>> THEN 0 ELSE Head(xs) + SumSeq(Tail(xs))

\* lines 92-93: np.sum(chroma, axis=1), then 1 where the sum is above the
\* threshold; a window is a sequence of columns, each a function 0..11 -> energy
Binarize(window, threshold) ==
    {pc \in 0..11 : SumSeq([k \in 1..Len(window) |-> window[k][pc]]) > threshold}

\* sequencing: for each active pitch class as root, the active offsets from it
sequencing(active) == [root_note \in active |-> {(p - root_note) % 12 : p \in active}]

\* a quality table that looks for the seventh before the altered fifth
QualityOf_SeventhFirst(sequence) ==
    IF 3 \in sequence
    THEN IF 10 \in sequence THEN "min7"
         ELSE IF 6 \in sequence THEN "dim" ELSE "min"
    ELSE IF 10 \in sequence THEN "dom7"
         ELSE IF 8 \in sequence THEN "aug"
         ELSE IF 11 \in sequence THEN "maj7" ELSE "maj"

\* lines 48-65: the quality of an interval set with exactly one of 3 and 4
QualityOf(sequence) ==
    IF 3 \in sequence
    THEN IF 6 \in sequence THEN "dim"
         ELSE IF 10 \in sequence THEN "min7" ELSE "min"
    ELSE IF 8 \in sequence THEN "aug"
         ELSE IF 10 \in sequence THEN "dom7"
         ELSE IF 11 \in sequence THEN "maj7" ELSE "maj"

\* an insider counted like an outsider
NotePoints_InsiderPenalty(n, quality) ==
    IF n \in CHORD_OUTSIDERS_1[quality] THEN 0 - 1
    ELSE IF n \in CHORD_OUTSIDERS_2[quality] THEN 0 - 2
    ELSE IF n \in CHORD_INSIDERS[quality] THEN 0 - 1
    ELSE 0

\* lines 70-76: what one interval outside the quality's map adds to the score
NotePoints(n, quality) ==
    IF n \in CHORD_OUTSIDERS_1[quality] THEN 0 - 1
    ELSE IF n \in CHORD_OUTSIDERS_2[quality] THEN 0 - 2
    ELSE IF n \in CHORD_INSIDERS[quality] THEN 10
    ELSE 0

\* lines 67-77
ScoreOf(sequence, quality) ==
    LET _notes == {n \in sequence : n \notin CHORD_MAPS[quality]}
    IN  SumSeq([k \in 1..12 |-> IF (k - 1) \in _notes THEN NotePoints(k - 1, quality) ELSE 0])

\* a candidate accepted although it holds both thirds
ScoreOne_BothThirds(sequence) ==
    IF 3 \notin sequence /\ 4 \notin sequence
    THEN [score |-> 0 - 100, quality |-> "None"]
    ELSE [score |-> ScoreOf(sequence, QualityOf(sequence)), quality |-> QualityOf(sequence)]

\* lines 40-78: the score and the quality of one candidate
ScoreOne(sequence) ==
    IF 3 \notin sequence /\ 4 \notin sequence
    THEN [score |-> 0 - 100, quality |-> "None"]
    ELSE IF 3 \in sequence /\ 4 \in sequence
    THEN [score |-> 0 - 100, quality |-> "None"]
    ELSE [score |-> ScoreOf(sequence, QualityOf(sequence)), quality |-> QualityOf(sequence)]

\* scoring: the two dictionaries, keyed by root note
scoring(cands) ==
    [scores |-> [r \in DOMAIN cands |-> ScoreOne(cands[r]).score],
     qualities |-> [r \in DOMAIN cands |-> ScoreOne(cands[r]).quality]]

SetMin(S) == CHOOSE x \in S : \A y \in S : x <= y
SetMax(S) == CHOOSE x \in S : \A y \in S : y <= x

\* a find_chord that settles a tie for the largest tied root
find_chord_LastTied(window, threshold) ==
    LET active == Binarize(window, threshold)
    IN  IF active = {}
        THEN [root |-> "N", quality |-> "N", bass |-> "N", score |-> 10,
              active |-> active, candidates |-> <<>>, scores |-> <<>>, qualities |-> <<>>]
        ELSE LET cands == sequencing(active)
                 sq == scoring(cands)
                 bass_note == SetMin(active)
                 _max == SetMax({sq.scores[r] : r \in DOMAIN cands})
                 __root_note == {r \in DOMAIN cands : sq.scores[r] = _max}
                 root_note == SetMax(__root_note)
             IN  [root |-> PITCH_CLASSES[root_note + 1],
                  quality |-> sq.qualities[root_note],
                  bass |-> PITCH_CLASSES[bass_note + 1],
                  score |-> sq.scores[root_note],
                  active |-> active, candidates |-> cands,
                  scores |-> sq.scores, qualities |-> sq.qualities]

\* find_chord; the record also keeps the locals candidates, scores, qualities
find_chord(window, threshold) ==
    LET active == Binarize(window, threshold)
    IN  IF active = {}
        THEN [root |-> "N", quality |-> "N", bass |-> "N", score |-> 10,
              active |-> active, candidates |-> <<>>, scores |-> <<>>, qualities |-> <<>>]
        ELSE LET cands == sequencing(active)
                 sq == scoring(cands)
                 bass_note == SetMin(active)
                 _max == SetMax({sq.scores[r] : r \in DOMAIN cands})
                 __root_note == {r \in DOMAIN cands : sq.scores[r] = _max}
                 root_note == SetMin(__root_note)
             IN  [root |-> PITCH_CLASSES[root_note + 1],
                  quality |-> sq.qualities[root_note],
                  bass |-> PITCH_CLASSES[bass_note + 1],
                  score |-> sq.scores[root_note],
                  active |-> active, candidates |-> cands,
                  scores |-> sq.scores, qualities |-> sq.qualities]

-----------------------------------------------------------------------------
(* Scoring every one-beat window *)

\* energy of an active pitch class
Loud == Threshold + 1

InitScoring ==
    /\ chroma \in {<<col>> : col \in [0..11 -> {0, Loud}]}
    /\ chord = Idle
    /\ events = Idle /\ polyphony_limit = 0 /\ dec = Idle /\ remi = Idle /\ enc = Idle
    /\ candidates = Idle /\ max_tick = 0 /\ dp = Idle
    /\ song = Idle /\ selected_chords = Idle /\ deduped = Idle

FindChord ==
    /\ chord = Idle
    /\ chord' = find_chord(chroma, Threshold)
    /\ UNCHANGED <<events, polyphony_limit, dec, remi, enc, chroma,
                   candidates, max_tick, dp,
                   song, selected_chords, deduped>>

NextScoring == FindChord

SpecScoring == InitScoring /\ [][NextScoring]_vars

\* C10: every candidate whose interval set holds both 3 and 4, or neither, is
\* given quality 'None' and score -100.
C10_InvalidThirds ==
    chord # Idle =>
        \A r \in DOMAIN chord.candidates :
            ((3 \in chord.candidates[r]) <=> (4 \in chord.candidates[r])) =>
                chord.qualities[r] = "None" /\ chord.scores[r] = 0 - 100

\* a window scored with candidates of both kinds: both thirds, and neither
C10_Witness ==
    /\ chord # Idle
    /\ \E r \in DOMAIN chord.candidates :
          3 \in chord.candidates[r] /\ 4 \in chord.candidates[r] /\ chord.scores[r] = 0 - 100
    /\ \E r \in DOMAIN chord.candidates :
          3 \notin chord.candidates[r] /\ 4 \notin chord.candidates[r]
          /\ chord.qualities[r] = "None"

-----------------------------------------------------------------------------
(* chord_recognition.py: get_candidates and dynamic *)

\* chroma[:, start_beat:end_beat]
Window(chr, start_beat, end_beat) == SubSeq(chr, start_beat + 1, end_beat)

\* the window lengths get_candidates tries by default
Intervals == {1, 2, 3, 4}

\* get_candidates: candidates[start_beat][end_beat] for every start and every
\* interval, the end clamped to max_tick
get_candidates(chr, mt) ==
    [start_beat \in 0..(mt - 1) |->
        [end_beat \in {Min(start_beat + interval, mt) : interval \in Intervals} |->
            LET c == find_chord(Window(chr, start_beat, end_beat), Threshold)
            IN  [root |-> c.root, quality |-> c.quality, bass |-> c.bass, score |-> c.score]]]

\* np.NINF, below every sum of scores
NINF == 0 - 1000000
Plus(a, b) == IF a = NINF THEN NINF ELSE a + b

\* a label that names the bass even when it is the root
ChordLabel_AlwaysBass(c) == <<c.root, c.quality, c.bass>>

\* the label '{}:{}' or '{}:{}/{}', kept as its pieces
ChordLabel(c) ==
    IF c.root = c.bass THEN <<c.root, c.quality>> ELSE <<c.root, c.quality, c.bass>>

\* scores left at zero everywhere
InitScores_Zeros(mt) == [t \in 0..mt |-> 0]

\* lines 184-185: scores = zeros, scores[1:] = -inf
InitScores(mt) == [t \in 0..mt |-> IF t = 0 THEN 0 ELSE NINF]

\* a best score that forgets the prefix it extends
Relax_NoPrefix(d, start_tick, end_tick, candidate) ==
    IF d.scores[end_tick] < Plus(d.scores[start_tick], candidate.score)
    THEN [d EXCEPT !.scores[end_tick] = candidate.score,
                   !.chords[end_tick] = <<start_tick, end_tick, ChordLabel(candidate)>>]
    ELSE d

\* a candidate taken whether or not it is the best yet
Relax_LastWins(d, start_tick, end_tick, candidate) ==
    [d EXCEPT !.scores[end_tick] = Plus(d.scores[start_tick], candidate.score),
              !.chords[end_tick] = <<start_tick, end_tick, ChordLabel(candidate)>>]

\* lines 191-199: one candidate, taken when it is the best yet for its end
Relax(d, start_tick, end_tick, candidate) ==
    IF d.scores[end_tick] < Plus(d.scores[start_tick], candidate.score)
    THEN [d EXCEPT !.scores[end_tick] = Plus(d.scores[start_tick], candidate.score),
                   !.chords[end_tick] = <<start_tick, end_tick, ChordLabel(candidate)>>]
    ELSE d

\* line 190: the candidates of one start, in the dictionary's order (ends ascending)
RECURSIVE RelaxFrom(_, _, _, _)
RelaxFrom(d, start_tick, ends, cands) ==
    IF ends = {} THEN d
    ELSE LET end_tick == SetMin(ends)
         IN  RelaxFrom(Relax(d, start_tick, end_tick, cands[start_tick][end_tick]),
                       start_tick, ends \ {end_tick}, cands)

\* lines 187-200: the forward pass
RECURSIVE Forward(_, _, _, _)
Forward(d, start_tick, mt, cands) ==
    IF ~(start_tick < mt) THEN d
    ELSE Forward(IF start_tick \in DOMAIN cands
                 THEN RelaxFrom(d, start_tick, DOMAIN cands[start_tick], cands)
                 ELSE d,
                 start_tick + 1, mt, cands)

\* lines 202-207: follow the predecessor pointers from the last tick; results
\* are collected last segment first; a None pointer raises TypeError
RECURSIVE ReadPath(_, _, _)
ReadPath(chords, start_tick, results) ==
    IF ~(start_tick > 0) THEN [results |-> results, raised |-> ""]
    ELSE IF chords[start_tick] = <<>> THEN [results |-> results, raised |-> "TypeError"]
    ELSE ReadPath(chords, chords[start_tick][1], Append(results, chords[start_tick]))

Reversed(xs) == [k \in 1..Len(xs) |-> xs[Len(xs) + 1 - k]]

\* dynamic(candidates, max_tick); the record keeps the arrays scores and chords
dynamic(cands, mt) ==
    LET d0 == [chords |-> [t \in 0..mt |-> <<>>], scores |-> InitScores(mt)]
        d == Forward(d0, 0, mt, cands)
        path == ReadPath(d.chords, mt, <<>>)
    IN  [scores |-> d.scores, chords |-> d.chords,
         raised |-> path.raised,
         results |-> IF path.raised = "" THEN Reversed(path.results) ELSE <<>>]

-----------------------------------------------------------------------------
(* Chord segmentation of a beat-synchronous chroma matrix *)

MaxBeats == 4

\* a column with the given energy at the given pitch classes
Column(pcs, energy) == [pc \in 0..11 |-> IF pc \in pcs THEN energy ELSE 0]

\* the beats of the modelled pieces: silence, a single note, triads and a
\* seventh chord, an inversion, and a soft dyad that two beats together make loud
Columns ==
    { Column({}, 0),
      Column({0}, Loud),
      Column({0, 4, 7}, Loud),
      Column({0, 4, 9}, Loud),
      Column({0, 3, 7, 10}, Loud),
      Column({2, 5, 7, 11}, Loud),
      Column({0, 4}, 6) }

InitChords ==
    /\ chroma \in UNION {[1..n -> Columns] : n \in 1..MaxBeats}
    /\ max_tick = Len(chroma)
    /\ candidates = Idle /\ dp = Idle /\ chord = Idle
    /\ song = Idle /\ selected_chords = Idle /\ deduped = Idle
    /\ events = Idle /\ polyphony_limit = 0 /\ dec = Idle /\ remi = Idle /\ enc = Idle

\* extract, line 218
GetCandidates ==
    /\ candidates = Idle
    /\ candidates' = get_candidates(chroma, max_tick)
    /\ UNCHANGED <<events, polyphony_limit, dec, remi, enc, chroma, chord, max_tick, dp,
                   song, selected_chords, deduped>>

\* extract, line 221
Dynamic ==
    /\ candidates # Idle /\ dp = Idle
    /\ dp' = dynamic(candidates, max_tick)
    /\ UNCHANGED <<events, polyphony_limit, dec, remi, enc, chroma, chord,
                   candidates, max_tick,
                   song, selected_chords, deduped>>

NextChords == GetCandidates \/ Dynamic

SpecChords == InitChords /\ [][NextChords]_vars

\* the score of the candidate a returned segment stands for
SegScore(seg) == candidates[seg[1]][seg[2]].score

\* C4: dynamic returns without raising, and its segments start at 0, end at
\* max_tick, each ends where the next starts, each has start < end, and each
\* is a window of the table carrying that window's label.
C4_SegmentsCover ==
    dp # Idle =>
        /\ dp.raised = ""
        /\ Len(dp.results) >= 1
        /\ dp.results[1][1] = 0
        /\ dp.results[Len(dp.results)][2] = max_tick
        /\ \A k \in 1..Len(dp.results) :
              /\ dp.results[k][1] < dp.results[k][2]
              /\ dp.results[k][1] \in DOMAIN candidates
              /\ dp.results[k][2] \in DOMAIN candidates[dp.results[k][1]]
              /\ dp.results[k][3] = ChordLabel(candidates[dp.results[k][1]][dp.results[k][2]])
        /\ \A k \in 1..(Len(dp.results) - 1) : dp.results[k][2] = dp.results[k + 1][1]

\* a piece of several beats cut into more than one segment, one of them a
\* rejected (-100) window
C4_Witness ==
    /\ dp # Idle /\ max_tick >= 3
    /\ Len(dp.results) >= 2
    /\ \E k \in 1..Len(dp.results) : SegScore(dp.results[k]) = 0 - 100
    /\ \E k \in 1..Len(dp.results) : dp.results[k][2] - dp.results[k][1] >= 2

\* every way of cutting [0, max_tick) into windows of the table: the cut points
Partitions ==
    {B \in SUBSET (0..max_tick) :
        /\ 0 \in B /\ max_tick \in B
        /\ \A s \in B \ {max_tick} :
              LET e == SetMin({x \in B : x > s})
              IN  s \in DOMAIN candidates /\ e \in DOMAIN candidates[s]}

PartitionScore(B) ==
    SumSeq([k \in 1..max_tick |->
        IF (k - 1) \in B
        THEN candidates[k - 1][SetMin({x \in B : x > k - 1})].score
        ELSE 0])

ResultScore == SumSeq([k \in 1..Len(dp.results) |-> SegScore(dp.results[k])])

\* C5: the scores of the returned segments sum to the maximum over all
\* partitions of [0, max_tick) into windows of the table, and that sum is
\* best[max_tick].
C5_Optimal ==
    dp # Idle =>
        /\ \A B \in Partitions : PartitionScore(B) <= ResultScore
        /\ \E B \in Partitions : PartitionScore(B) = ResultScore
        /\ dp.scores[max_tick] = ResultScore

\* the best segmentation is neither the finest nor the coarsest partition, and
\* partitions of different scores exist
C5_Witness ==
    /\ dp # Idle /\ max_tick >= 3
    /\ Len(dp.results) >= 2 /\ Len(dp.results) < max_tick
    /\ \E B \in Partitions : PartitionScore(B) < ResultScore

\* C6 as stated: along the chosen segment boundaries best[t] never decreases.
C6_BestMonotone ==
    dp # Idle =>
        \A k \in 1..Len(dp.results) :
            dp.scores[dp.results[k][1]] <= dp.scores[dp.results[k][2]]

\* C6 amended: across each chosen segment best[t] changes by exactly the
\* segment's candidate score, so it does not decrease across a segment exactly
\* when that score is not negative.
C6_BestStepsByScore ==
    dp # Idle =>
        \A k \in 1..Len(dp.results) :
            /\ dp.scores[dp.results[k][2]]
                  = dp.scores[dp.results[k][1]] + SegScore(dp.results[k])
            /\ (dp.scores[dp.results[k][1]] <= dp.scores[dp.results[k][2]])
                  <=> (SegScore(dp.results[k]) >= 0)

\* a segmentation with a segment of negative score after one of positive score
C6_Witness ==
    /\ dp # Idle
    /\ \E j, k \in 1..Len(dp.results) :
          j < k /\ SegScore(dp.results[j]) > 0 /\ SegScore(dp.results[k]) < 0

-----------------------------------------------------------------------------
(* utils.py: time signatures, positions, and numpy's nearest-bin search *)

Abs(x) == IF x < 0 THEN 0 - x ELSE x

\* np.argmin(abs(bins - x)): the 0-based index of the first minimum
ArgMinAbs(bins, x) ==
    CHOOSE k \in 0..(Len(bins) - 1) :
        /\ \A j \in 0..(Len(bins) - 1) : Abs(bins[k + 1] - x) <= Abs(bins[j + 1] - x)
        /\ \A j \in 0..(k - 1) : Abs(bins[j + 1] - x) > Abs(bins[k + 1] - x)

\* Python's round(n / d) for n >= 0, d > 0: halves go to the even neighbour
RoundHalfEven(n, d) ==
    LET q == n \div d
        r == n % d
    IN  IF 2 * r < d THEN q
        ELSE IF 2 * r > d THEN q + 1
        ELSE IF q % 2 = 0 THEN q ELSE q + 1

\* tick_to_position: round(tick / resolution * DEFAULT_POS_PER_QUARTER)
tick_to_position(tick, resolution) ==
    RoundHalfEven(tick * DEFAULT_POS_PER_QUARTER, resolution)

\* get_time_signature: the change whose tick range holds start, else the last;
\* a change's tick is midi.time_to_tick(sig.time)
get_time_signature(midi, start) ==
    LET tsc == midi.time_signature_changes
        hits == {k \in 1..(Len(tsc) - 1) : tsc[k].tick <= start /\ start < tsc[k + 1].tick}
    IN  IF hits # {} THEN tsc[SetMin(hits)] ELSE tsc[Len(tsc)]

\* a positions-per-bar count rounded up instead of truncated
get_positions_per_bar_RoundUp(midi, start) ==
    LET time_sig == get_time_signature(midi, start)
    IN  (DEFAULT_POS_PER_QUARTER * 4 * time_sig.numerator + time_sig.denominator - 1)
            \div time_sig.denominator

\* get_positions_per_bar: int(DEFAULT_POS_PER_QUARTER * 4 * numerator / denominator)
get_positions_per_bar(midi, start) ==
    LET time_sig == get_time_signature(midi, start)
    IN  (DEFAULT_POS_PER_QUARTER * 4 * time_sig.numerator) \div time_sig.denominator

-----------------------------------------------------------------------------
(* midi2remi.RemiPlus.get_remi_events *)

\* a position index written one too high
PositionIndex_OneBased(item_start, bar_st, time_sig, resolution, positions_per_bar) ==
    1 + (CHOOSE k \in 0..(positions_per_bar - 1) :
        LET dist(j) == Abs((bar_st - item_start) * positions_per_bar * time_sig.denominator
                           + j * resolution * 4 * time_sig.numerator)
        IN  /\ \A j \in 0..(positions_per_bar - 1) : dist(k) <= dist(j)
            /\ \A j \in 0..(k - 1) : dist(j) > dist(k))

\* lines 79-84: flags = linspace(bar_st, bar_st + ticks_per_bar, positions_per_bar,
\* endpoint=False) and argmin(abs(flags - item.start)); the distances are
\* compared after multiplying by positions_per_bar * denominator
PositionIndex(item_start, bar_st, time_sig, resolution, positions_per_bar) ==
    CHOOSE k \in 0..(positions_per_bar - 1) :
        LET dist(j) == Abs((bar_st - item_start) * positions_per_bar * time_sig.denominator
                           + j * resolution * 4 * time_sig.numerator)
        IN  /\ \A j \in 0..(positions_per_bar - 1) : dist(k) <= dist(j)
            /\ \A j \in 0..(k - 1) : dist(j) > dist(k)

\* lines 53-77: the pairs written at the head of a bar for the current chord
\* and the current tempo
CarryForward(es) ==
    LET chord_pair == IF es.current_chord # <<>>
                      THEN << Tok(POSITION_KEY, str(0)),
                              Tok(CHORD_KEY, es.current_chord[1].pitch) >>
                      ELSE <<>>
        tempo_pair == IF es.current_tempo # <<>>
                      THEN << Tok(POSITION_KEY, str(0)),
                              Tok(TEMPO_KEY,
                                  str(ArgMinAbs(DEFAULT_TEMPO_BINS, es.current_tempo[1].pitch))) >>
                      ELSE <<>>
    IN  [es EXCEPT !.events = @ \o chord_pair \o tempo_pair]

\* lines 91-123: the five tokens of a note
\* utils.read_note_items, lines 121-122: the instrument field of a drum note holds
\* the string 'drum' where other notes hold a program number
DrumInstrument == 0 - 1

NoteTokens(item, index, resolution) ==
    LET name == IF item.instrument = DrumInstrument THEN "drum"
                ELSE program_to_instrument_name(item.instrument)
        velocity_index == ArgMinAbs(DEFAULT_VELOCITY_BINS, item.velocity)
        duration == tick_to_position(item.end - item.start, resolution)
        duration_index == ArgMinAbs(DEFAULT_DURATION_BINS, duration)
    IN  << Tok(POSITION_KEY, str(index)),
           Tok(INSTRUMENT_KEY, name),
           [name |-> PITCH_KEY,
            value |-> IF name = "drum" THEN <<"drum", str(item.pitch)>>
                      ELSE <<str(item.pitch)>>],
           Tok(VELOCITY_KEY, str(velocity_index)),
           Tok(DURATION_KEY, str(duration_index)) >>

\* a Chord item written whatever the current chord is
ItemStep_EveryChord(es, item, bar_st, time_sig, resolution, positions_per_bar) ==
    LET index == PositionIndex(item.start, bar_st, time_sig, resolution, positions_per_bar)
        pos_event == Tok(POSITION_KEY, str(index))
    IN  IF item.name = "Note"
        THEN [es EXCEPT !.events = @ \o NoteTokens(item, index, resolution)]
        ELSE IF item.name = "Chord"
        THEN [es EXCEPT !.events = @ \o <<pos_event, Tok(CHORD_KEY, item.pitch)>>,
                        !.current_chord = <<item>>]
        ELSE IF item.name = "Tempo"
        THEN IF es.current_tempo = <<>> \/ item.pitch # es.current_tempo[1].pitch
             THEN [es EXCEPT !.events = @ \o
                                <<pos_event,
                                  Tok(TEMPO_KEY, str(ArgMinAbs(DEFAULT_TEMPO_BINS, item.pitch)))>>,
                             !.current_tempo = <<item>>]
             ELSE es
        ELSE es

\* lines 82-143: one interior item of a bar group
ItemStep(es, item, bar_st, time_sig, resolution, positions_per_bar) ==
    LET index == PositionIndex(item.start, bar_st, time_sig, resolution, positions_per_bar)
        pos_event == Tok(POSITION_KEY, str(index))
    IN  IF item.name = "Note"
        THEN [es EXCEPT !.events = @ \o NoteTokens(item, index, resolution)]
        ELSE IF item.name = "Chord"
        THEN IF es.current_chord = <<>> \/ item.pitch # es.current_chord[1].pitch
             THEN [es EXCEPT !.events = @ \o <<pos_event, Tok(CHORD_KEY, item.pitch)>>,
                             !.current_chord = <<item>>]
             ELSE es
        ELSE IF item.name = "Tempo"
        THEN IF es.current_tempo = <<>> \/ item.pitch # es.current_tempo[1].pitch
             THEN [es EXCEPT !.events = @ \o
                                <<pos_event,
                                  Tok(TEMPO_KEY, str(ArgMinAbs(DEFAULT_TEMPO_BINS, item.pitch)))>>,
                             !.current_tempo = <<item>>]
             ELSE es
        ELSE es

RECURSIVE ItemsStep(_, _, _, _, _, _)
ItemsStep(es, items, bar_st, time_sig, resolution, positions_per_bar) ==
    IF items = <<>> THEN es
    ELSE ItemsStep(ItemStep(es, Head(items), bar_st, time_sig, resolution, positions_per_bar),
                   Tail(items), bar_st, time_sig, resolution, positions_per_bar)

\* lines 33-77: the head of a bar group: the positions-per-bar check, the Bar
\* and Time Signature tokens and the carried-forward pairs
BarHead(es, group, midi) ==
    LET bar_st == group.bar_st
        n_downbeat == es.n_downbeat + 1
        positions_per_bar == get_positions_per_bar(midi, bar_st)
        time_sig == get_time_signature(midi, bar_st)
    IN  IF positions_per_bar <= 0
        THEN [es EXCEPT !.n_downbeat = n_downbeat, !.raised = "ValueError"]
        ELSE CarryForward([es EXCEPT
                            !.n_downbeat = n_downbeat,
                            !.events = @ \o
                                << Tok(BAR_KEY, str(n_downbeat)),
                                   [name |-> TIME_SIGNATURE_KEY,
                                    value |-> <<str(time_sig.numerator),
                                                str(time_sig.denominator)>>] >>])

\* lines 33-143: one bar group [bar_st, items..., bar_et]
GroupStep(es, group, midi) ==
    LET head == BarHead(es, group, midi)
    IN  IF head.raised # "" THEN head
        ELSE ItemsStep(head, group.items, group.bar_st,
                       get_time_signature(midi, group.bar_st), midi.resolution,
                       get_positions_per_bar(midi, group.bar_st))

RECURSIVE GroupsStep(_, _, _)
GroupsStep(es, gs, midi) ==
    IF gs = <<>> \/ es.raised # "" THEN es
    ELSE GroupsStep(GroupStep(es, Head(gs), midi), Tail(gs), midi)

\* get_remi_events: the token list, or the exception
get_remi_events(self) ==
    GroupsStep([events |-> <<>>, n_downbeat |-> 0, current_chord |-> <<>>,
                current_tempo |-> <<>>, raised |-> ""],
               self.groups, self.midi)

-----------------------------------------------------------------------------
(* Encoding a piece and decoding the tokens again *)

MaxBars == 3

\* midi.resolution of the modelled pieces: two ticks per position
Resolution == 2 * DEFAULT_POS_PER_QUARTER

\* music_obj.Item; a field the code leaves None holds "None"
NoteItem(start, end, velocity, pitch, instrument) ==
    [name |-> "Note", start |-> start, end |-> end, velocity |-> velocity,
     pitch |-> pitch, instrument |-> instrument]
ChordItem(start, end, label) ==
    [name |-> "Chord", start |-> start, end |-> end, velocity |-> "None",
     pitch |-> label, instrument |-> "None"]
TempoItem(start, bpm) ==
    [name |-> "Tempo", start |-> start, end |-> "None", velocity |-> "None",
     pitch |-> bpm, instrument |-> "None"]

\* the bars pieces are put together from: a time signature and the bar's
\* items in get_key order, their ticks counted from the bar's start
BarKinds ==
    << \* one drum note on the downbeat; velocity and duration are bin values
       [time_sig |-> <<4, 4>>,
        items |-> << TempoItem(0, 120), NoteItem(0, 24, 64, 38, DrumInstrument) >>],
       \* a chord, a note at velocity 127 lasting 16.5 positions
       [time_sig |-> <<4, 4>>,
        items |-> << ChordItem(0, 96, "C:maj"), TempoItem(0, 120),
                     NoteItem(0, 24, 64, 38, DrumInstrument),
                     NoteItem(12, 45, 127, 60, 0) >>],
       \* two drum notes on one position in 3/4
       [time_sig |-> <<3, 4>>,
        items |-> << NoteItem(0, 35, 3, 36, DrumInstrument), NoteItem(0, 6, 124, 38, DrumInstrument),
                     TempoItem(48, 60) >>],
       \* a note on the grid and one off it that lands on the same position
       [time_sig |-> <<4, 4>>,
        items |-> << ChordItem(0, 96, "A:min"),
                     NoteItem(12, 13, 126, 60, 0), NoteItem(13, 61, 100, 62, 0),
                     NoteItem(94, 1630, 0, 40, 24) >>],
       \* a bar without notes
       [time_sig |-> <<4, 4>>, items |-> << ChordItem(0, 96, "N:N") >>],
       [time_sig |-> <<3, 4>>,
        items |-> << TempoItem(0, 60), NoteItem(70, 71, 1, 38, DrumInstrument) >>] >>

HasNote(kind) == \E k \in 1..Len(kind.items) : kind.items[k].name = "Note"

TicksPerBar(time_sig) == (Resolution * 4 * time_sig[1]) \div time_sig[2]

Shifted(item, bar_st) ==
    [item EXCEPT !.start = @ + bar_st,
                 !.end = IF item.name = "Tempo" THEN @ ELSE @ + bar_st]

\* the RemiPlus object of a piece made of the given bars: self.midi with its
\* resolution and time-signature changes, self.groups as group_items leaves them
RECURSIVE BuildPiece(_, _, _, _)
BuildPiece(ks, bar_st, prev_sig, self) ==
    IF ks = <<>> THEN self
    ELSE LET kind == BarKinds[Head(ks)]
             bar_et == bar_st + TicksPerBar(kind.time_sig)
             group == [bar_st |-> bar_st,
                       items |-> [k \in 1..Len(kind.items) |-> Shifted(kind.items[k], bar_st)],
                       bar_et |-> bar_et]
             tsc == IF kind.time_sig = prev_sig THEN self.midi.time_signature_changes
                    ELSE Append(self.midi.time_signature_changes,
                                [numerator |-> kind.time_sig[1],
                                 denominator |-> kind.time_sig[2], tick |-> bar_st])
         IN  BuildPiece(Tail(ks), bar_et, kind.time_sig,
                        [midi |-> [resolution |-> Resolution, time_signature_changes |-> tsc],
                         groups |-> Append(self.groups, group)])

Piece(ks) ==
    BuildPiece(ks, 0, <<>>,
               [midi |-> [resolution |-> Resolution, time_signature_changes |-> <<>>],
                groups |-> <<>>])

InitRoundTrip ==
    /\ \E n \in 1..MaxBars : \E ks \in [1..n -> 1..Len(BarKinds)] :
          /\ HasNote(BarKinds[ks[1]]) /\ HasNote(BarKinds[ks[n]])
          /\ remi = Piece(ks)
    /\ enc = Idle
    /\ events = <<>>
    /\ polyphony_limit = DefaultPolyphonyLimit
    /\ dec = [DecIdle EXCEPT !.pc = "idle"]
    /\ chroma = Idle /\ chord = Idle /\ candidates = Idle /\ max_tick = 0 /\ dp = Idle
    /\ song = Idle /\ selected_chords = Idle /\ deduped = Idle

\* remi2midi.test, lines 131-132: the tokens go to the decoder
GetRemiEvents ==
    /\ enc = Idle /\ remi # Idle
    /\ enc' = get_remi_events(remi)
    /\ events' = IF enc'.raised = "" THEN enc'.events ELSE events
    /\ dec' = IF enc'.raised = "" THEN DecIdle ELSE dec
    /\ UNCHANGED <<polyphony_limit, remi, chroma, chord, candidates, max_tick, dp,
                   song, selected_chords, deduped>>

NextRoundTrip ==
    GetRemiEvents \/ Start \/ ScanBar \/ ScanTempo \/ ScanNote \/ ScanSkip \/ Return

SpecRoundTrip == InitRoundTrip /\ [][NextRoundTrip]_vars

\* the notes of the piece, each with the ordinal of its bar group
PieceNotes ==
    {<<b, k>> \in (1..Len(remi.groups)) \X (1..8) :
        k <= Len(remi.groups[b].items) /\ remi.groups[b].items[k].name = "Note"}

NoteOf(bk) == remi.groups[bk[1]].items[bk[2]]
SigOf(bk) == get_time_signature(remi.midi, remi.groups[bk[1]].bar_st)
PpbOf(bk) == get_positions_per_bar(remi.midi, remi.groups[bk[1]].bar_st)

\* the note's start is the k-th point of its bar's position grid
OnGridAt(bk, k) ==
    (NoteOf(bk).start - remi.groups[bk[1]].bar_st) * PpbOf(bk) * SigOf(bk).denominator
        = k * Resolution * 4 * SigOf(bk).numerator
OnGrid(bk) == \E k \in 0..(PpbOf(bk) - 1) : OnGridAt(bk, k)

InstrumentName(item) ==
    IF item.instrument = DrumInstrument THEN "drum" ELSE INSTRUMENT_MAP[item.instrument]

NearestBin(bins, v, x, scale) ==
    /\ \E j \in 1..Len(bins) : bins[j] = v
    /\ \A j \in 1..Len(bins) : Abs(v * scale - x) <= Abs(bins[j] * scale - x)

\* r is n / d rounded to a whole number, a half going to the even neighbour
IsRounded(r, n, d) ==
    \/ 2 * Abs(r * d - n) < d
    \/ 2 * Abs(r * d - n) = d /\ r % 2 = 0

\* the decoded note a of the track named as the item's instrument: same bar
\* ordinal, position index, pitch and instrument
SameNote(a, bk) ==
    /\ a.bar = bk[1] - 1
    /\ PpbOf(bk) > 0 /\ OnGridAt(bk, a.position)
    /\ a.pitch = NoteOf(bk).pitch
    /\ a.instrument = InstrumentName(NoteOf(bk))
    /\ \E t \in 1..Len(dec.instruments) :
          /\ dec.instruments[t].name = a.instrument
          /\ dec.instruments[t].is_drum = (NoteOf(bk).instrument = DrumInstrument)
          /\ NoteOf(bk).instrument # DrumInstrument => dec.instruments[t].program = NoteOf(bk).instrument
          /\ \E n \in 1..Len(dec.instruments[t].notes) :
                /\ dec.instruments[t].notes[n].pitch = a.pitch
                /\ dec.instruments[t].notes[n].velocity = a.velocity

ExactWhenBinned(a, bk) ==
    LET x == NoteOf(bk)
    IN  /\ (x.velocity <= 127 /\ \E j \in 1..Len(DEFAULT_VELOCITY_BINS) :
                DEFAULT_VELOCITY_BINS[j] = x.velocity) => a.velocity = x.velocity
        /\ \A j \in 1..Len(DEFAULT_DURATION_BINS) :
              DEFAULT_DURATION_BINS[j] * Resolution
                  = (x.end - x.start) * DEFAULT_POS_PER_QUARTER
              => a.duration = DEFAULT_DURATION_BINS[j]

-----------------------------------------------------------------------------
(* The silence chord *)

\* no pitch class of chroma[:, start_beat:end_beat] sums above the threshold
SilentWindow(start_beat, end_beat) ==
    \A pc \in 0..11 :
        SumSeq([k \in 1..(end_beat - start_beat) |-> chroma[start_beat + k][pc]]) <= Threshold

\* C11: for every window of the table in which no pitch class sums above the
\* threshold, find_chord gives root 'N', quality 'N', bass 'N' and score 10,
\* and a segment dynamic returns for such a window is labelled 'N:N'.
C11_Silence ==
    /\ candidates # Idle =>
          \A s \in DOMAIN candidates : \A e \in DOMAIN candidates[s] :
              SilentWindow(s, e) =>
                  candidates[s][e] = [root |-> "N", quality |-> "N", bass |-> "N", score |-> 10]
    /\ dp # Idle =>
          \A k \in 1..Len(dp.results) :
              SilentWindow(dp.results[k][1], dp.results[k][2]) =>
                  dp.results[k][3] = <<"N", "N">>

\* dynamic returned a segment over a window that holds energy but none above
\* the threshold, next to a segment that is not silent
C11_Witness ==
    /\ dp # Idle
    /\ \E k \in 1..Len(dp.results) :
          /\ SilentWindow(dp.results[k][1], dp.results[k][2])
          /\ \E pc \in 0..11 : chroma[dp.results[k][1] + 1][pc] > 0
          /\ dp.results[k][3] = <<"N", "N">>
    /\ \E k \in 1..Len(dp.results) : ~SilentWindow(dp.results[k][1], dp.results[k][2])

-----------------------------------------------------------------------------
(* Quality, score and root of a scored window *)

\* the candidates of the scored window that hold exactly one of 3 and 4
ValidRoots ==
    {r \in DOMAIN chord.candidates :
        (3 \in chord.candidates[r]) /= (4 \in chord.candidates[r])}

\* C12: a candidate with exactly one of 3 and 4 gets its quality from the
\* priority table: with 3, 'dim' if 6 is present, else 'min7' if 10 is, else
\* 'min'; with 4, 'aug' if 8 is present, else 'dom7' if 10 is, else 'maj7'
\* if 11 is, else 'maj'.
C12_QualityTable ==
    chord # Idle =>
        \A r \in ValidRoots :
            LET s == chord.candidates[r]
                q == chord.qualities[r]
            IN  /\ (3 \in s /\ 6 \in s) => q = "dim"
                /\ (3 \in s /\ 6 \notin s /\ 10 \in s) => q = "min7"
                /\ (3 \in s /\ 6 \notin s /\ 10 \notin s) => q = "min"
                /\ (4 \in s /\ 8 \in s) => q = "aug"
                /\ (4 \in s /\ 8 \notin s /\ 10 \in s) => q = "dom7"
                /\ (4 \in s /\ 8 \notin s /\ 10 \notin s /\ 11 \in s) => q = "maj7"
                /\ (4 \in s /\ 8 \notin s /\ 10 \notin s /\ 11 \notin s) => q = "maj"

\* one window with a candidate where 6 overrides 10 and a candidate where 10
\* overrides 11
C12_Witness ==
    /\ chord # Idle
    /\ \E r \in ValidRoots :
          {3, 6, 10} \subseteq chord.candidates[r] /\ chord.qualities[r] = "dim"
    /\ \E r \in ValidRoots :
          {4, 10, 11} \subseteq chord.candidates[r] /\ 8 \notin chord.candidates[r]
          /\ chord.qualities[r] = "dom7"

\* the active intervals of candidate r outside its quality's core set that lie in S
Outside(r, S) ==
    {n \in chord.candidates[r] : n \notin CHORD_MAPS[chord.qualities[r]] /\ n \in S}

\* C13: the score of a candidate with a valid quality q is -1 for each active
\* interval in q's outsider-1 set, -2 for each in its outsider-2 set and +10
\* for each in its insider set, counted outside q's core set; and when the
\* active pitch classes are {r, r+4, r+7} mod 12 find_chord returns root r,
\* quality 'maj' and score 10.
C13_ScoreFormula ==
    chord # Idle =>
        /\ \A r \in ValidRoots :
              LET q == chord.qualities[r]
              IN  chord.scores[r] =
                      10 * Cardinality(Outside(r, CHORD_INSIDERS[q]))
                      - Cardinality(Outside(r, CHORD_OUTSIDERS_1[q]))
                      - 2 * Cardinality(Outside(r, CHORD_OUTSIDERS_2[q]))
        /\ \A r \in 0..11 :
              chord.active = {r, (r + 4) % 12, (r + 7) % 12} =>
                  /\ chord.root = PITCH_CLASSES[r + 1]
                  /\ chord.quality = "maj"
                  /\ chord.score = 10

\* the major triad on D was scored: D is returned with score 10 for its
\* insider, and the candidate on F# is a minor chord with one outsider
C13_Witness ==
    /\ chord # Idle /\ chord.active = {2, 6, 9}
    /\ chord.root = "D" /\ chord.quality = "maj" /\ chord.score = 10
    /\ Outside(2, CHORD_INSIDERS["maj"]) = {7}
    /\ 6 \in ValidRoots /\ chord.qualities[6] = "min"
    /\ Outside(6, CHORD_OUTSIDERS_1["min"]) = {8} /\ chord.scores[6] = 0 - 1

\* C14: for a window with active pitch classes, the bass is the smallest
\* active pitch class, the root is a candidate of maximum score and the
\* smallest one among those, and the quality and the score are the root's.
C14_RootAndBass ==
    (chord # Idle /\ chord.active # {}) =>
        /\ \E b \in chord.active :
              /\ \A p \in chord.active : b <= p
              /\ chord.bass = PITCH_CLASSES[b + 1]
        /\ \E r \in chord.active :
              /\ \A p \in chord.active : chord.scores[p] <= chord.scores[r]
              /\ \A p \in chord.active : chord.scores[p] = chord.scores[r] => r <= p
              /\ chord.root = PITCH_CLASSES[r + 1]
              /\ chord.quality = chord.qualities[r]
              /\ chord.score = chord.scores[r]

\* several candidates tie for the maximum, and the root is not the bass
C14_Witness ==
    /\ chord # Idle /\ chord.active # {}
    /\ chord.root # chord.bass
    /\ \E r, p \in chord.active :
          /\ r # p
          /\ chord.scores[r] = chord.scores[p]
          /\ \A x \in chord.active : chord.scores[x] <= chord.scores[r]

-----------------------------------------------------------------------------
(* chord_recognition.dedupe *)

\* lines 160-165: one turn of the loop; acc holds start, end, chord and deduped
DedupeStep(acc, next_chord) ==
    IF acc.chord = next_chord[3]
    THEN [acc EXCEPT !.end = next_chord[2]]
    ELSE [start |-> next_chord[1], end |-> next_chord[2], chord |-> next_chord[3],
          deduped |-> Append(acc.deduped, <<acc.start, acc.end, acc.chord>>)]

RECURSIVE DedupeLoop(_, _, _)
DedupeLoop(acc, chords, k) ==
    IF k > Len(chords) THEN acc
    ELSE DedupeLoop(DedupeStep(acc, chords[k]), chords, k + 1)

\* a dedupe that forgets the run it is still holding when the list ends
dedupe_NoLast(chords) ==
    IF Len(chords) = 0 THEN <<>>
    ELSE DedupeLoop([start |-> chords[1][1], end |-> chords[1][2], chord |-> chords[1][3],
                     deduped |-> <<>>], chords, 2).deduped

\* dedupe(chords): runs of equal labels become one segment from the run's
\* first start to its last end
dedupe(chords) ==
    IF Len(chords) = 0 THEN <<>>
    ELSE LET acc == DedupeLoop([start |-> chords[1][1], end |-> chords[1][2],
                                chord |-> chords[1][3], deduped |-> <<>>], chords, 2)
         IN  Append(acc.deduped, <<acc.start, acc.end, acc.chord>>)

MaxSegments == 3
MaxSegmentTick == 1
MaxPasses == 2

\* the (start, end, label) segments of the modelled lists: any two ticks, in
\* any order, and a label with or without a bass part
Segments ==
    (0..MaxSegmentTick) \X (0..MaxSegmentTick) \X {<<"C", "maj">>, <<"C", "maj", "E">>}

InitDedupe ==
    /\ selected_chords \in UNION {[1..n -> Segments] : n \in 0..MaxSegments}
    /\ deduped = <<>>
    /\ song = Idle
    /\ events = Idle /\ polyphony_limit = 0 /\ dec = Idle /\ remi = Idle /\ enc = Idle
    /\ chroma = Idle /\ chord = Idle /\ candidates = Idle /\ max_tick = 0 /\ dp = Idle

\* dedupe applied to the list, then to its own result; deduped keeps the
\* results of the successive applications
Dedupe ==
    /\ Len(deduped) < MaxPasses
    /\ deduped' = Append(deduped,
                         dedupe(IF deduped = <<>> THEN selected_chords
                                ELSE deduped[Len(deduped)]))
    /\ UNCHANGED <<events, polyphony_limit, dec, remi, enc, chroma, chord,
                   candidates, max_tick, dp, song, selected_chords>>

NextDedupe == Dedupe

SpecDedupe == InitDedupe /\ [][NextDedupe]_vars

\* C15: dedupe applied to its own result returns that result, element for
\* element.
C15_DedupeIdempotent ==
    \A k \in 2..Len(deduped) :
        /\ Len(deduped[k]) = Len(deduped[1])
        /\ \A j \in 1..Len(deduped[1]) : deduped[k][j] = deduped[1][j]

\* dedupe ran twice on a list in which it merged a run and kept a change of
\* label
C15_Witness ==
    /\ Len(deduped) >= 2
    /\ Len(deduped[1]) >= 2
    /\ Len(deduped[1]) < Len(selected_chords)

-----------------------------------------------------------------------------
(* utils.get_key and utils.group_items *)

\* get_key's type_priority
TypePriority(name) == IF name = "Chord" THEN 0 ELSE IF name = "Tempo" THEN 1 ELSE 2

\* the chord labels of the modelled pieces in Python's string order
LabelOrder == << "A:min", "C:maj", "N:N" >>
LabelRank(label) == CHOOSE k \in 1..Len(LabelOrder) : LabelOrder[k] = label

KeyLess_DrumsLast(a, b) ==
    \/ a.start < b.start
    \/ /\ a.start = b.start
       /\ \/ TypePriority(a.name) < TypePriority(b.name)
          \/ /\ a.name = b.name
             /\ IF a.name = "Note"
                THEN LET ia == IF a.instrument = DrumInstrument THEN 128 ELSE a.instrument
                         ib == IF b.instrument = DrumInstrument THEN 128 ELSE b.instrument
                     IN  ia < ib \/ (ia = ib /\ a.pitch < b.pitch)
                ELSE IF a.name = "Tempo" THEN a.pitch < b.pitch
                ELSE LabelRank(a.pitch) < LabelRank(b.pitch)

\* get_key(a) < get_key(b): the tuples (start, type priority, instrument with
\* -1 for drums, pitch) compared from the left; two items of one type are the
\* only ones whose instruments and pitches get compared
KeyLess(a, b) ==
    \/ a.start < b.start
    \/ /\ a.start = b.start
       /\ \/ TypePriority(a.name) < TypePriority(b.name)
          \/ /\ a.name = b.name
             /\ IF a.name = "Note"
                THEN LET ia == IF a.instrument = DrumInstrument THEN 0 - 1 ELSE a.instrument
                         ib == IF b.instrument = DrumInstrument THEN 0 - 1 ELSE b.instrument
                     IN  ia < ib \/ (ia = ib /\ a.pitch < b.pitch)
                ELSE IF a.name = "Tempo" THEN a.pitch < b.pitch
                ELSE LabelRank(a.pitch) < LabelRank(b.pitch)

\* x put behind every item of the sorted list whose key is not above its own
RECURSIVE InsertByKey(_, _)
InsertByKey(sorted, x) ==
    IF sorted = <<>> THEN <<x>>
    ELSE IF KeyLess(x, Head(sorted)) THEN <<x>> \o sorted
    ELSE <<Head(sorted)>> \o InsertByKey(Tail(sorted), x)

\* line 232: items.sort(key=get_key), a stable sort
RECURSIVE SortByKey(_)
SortByKey(items) ==
    IF items = <<>> THEN <<>>
    ELSE InsertByKey(SortByKey(SubSeq(items, 1, Len(items) - 1)), items[Len(items)])

\* a range that takes in the item on its closing downbeat
Insiders_Closed(items, db1, db2) ==
    LET Inside(item) == item.start >= db1 /\ item.start <= db2
    IN  SelectSeq(items, Inside)

\* lines 239-242: the items that start in [db1, db2)
Insiders(items, db1, db2) ==
    LET Inside(item) == item.start >= db1 /\ item.start < db2
    IN  SelectSeq(items, Inside)

\* lines 227-244: the groups before trimming; midi.downbeats holds the ticks
\* of midi.get_downbeats() and midi.end_tick the tick of midi.get_end_time()
BarGroups(midi, note_items, chord_items, tempo_items) ==
    LET items == SortByKey(IF chord_items # <<>>
                           THEN chord_items \o tempo_items \o note_items
                           ELSE tempo_items \o note_items)
        downbeats == Append(midi.downbeats, midi.end_tick)
    IN  [k \in 1..(Len(downbeats) - 1) |->
            [bar_st |-> downbeats[k],
             items |-> Insiders(items, downbeats[k], downbeats[k + 1]),
             bar_et |-> downbeats[k + 1]]]

\* line 250: the group holds a Note
GroupHasNote(group) == \E k \in 1..Len(group.items) : group.items[k].name = "Note"

\* lines 247-254 with idx = 0
RECURSIVE TrimFront(_)
TrimFront(groups) ==
    IF Len(groups) > 0 /\ ~GroupHasNote(groups[1]) THEN TrimFront(Tail(groups)) ELSE groups

\* lines 247-254 with idx = -1
RECURSIVE TrimBack(_)
TrimBack(groups) ==
    IF Len(groups) > 0 /\ ~GroupHasNote(groups[Len(groups)])
    THEN TrimBack(SubSeq(groups, 1, Len(groups) - 1))
    ELSE groups

\* a trim that stops at the front
TrimGroups_FrontOnly(groups) == TrimFront(groups)

\* lines 246-254: the front is trimmed, then the back
TrimGroups(groups) == TrimBack(TrimFront(groups))

group_items(midi, note_items, chord_items, tempo_items) ==
    TrimGroups(BarGroups(midi, note_items, chord_items, tempo_items))

-----------------------------------------------------------------------------
(* From the items of a piece to its tokens: group_items, then get_remi_events *)
(* one bar group and one item at a time                                      *)

MaxSongBars == 4

\* the bars songs are put together from, as BarKinds: a time signature and the
\* bar's items, their ticks counted from the bar's start
SongBarKinds ==
    << [time_sig |-> <<4, 4>>,
        items |-> << ChordItem(0, 96, "C:maj"), TempoItem(0, 120),
                     NoteItem(0, 45, 127, 36, 0),
                     NoteItem(0, 24, 64, 38, DrumInstrument) >>],
       [time_sig |-> <<3, 4>>,
        items |-> << NoteItem(0, 35, 3, 36, DrumInstrument),
                     NoteItem(0, 6, 124, 38, DrumInstrument), TempoItem(48, 60) >>],
       \* a bar without notes
       [time_sig |-> <<4, 4>>, items |-> << ChordItem(0, 96, "N:N") >>],
       \* a tempo on the downbeat, a chord in mid-bar, a note held into the next bar
       [time_sig |-> <<4, 4>>,
        items |-> << TempoItem(0, 60), ChordItem(48, 96, "A:min"),
                     NoteItem(48, 120, 80, 57, 0) >>],
       \* a chord on the downbeat, a tempo in mid-bar
       [time_sig |-> <<4, 4>>,
        items |-> << ChordItem(0, 96, "C:maj"), NoteItem(24, 48, 96, 64, 24),
                     TempoItem(24, 120) >>],
       \* a bar in 1/64, which has no position at all
       [time_sig |-> <<1, 64>>,
        items |-> << NoteItem(0, 1, 64, 38, DrumInstrument) >>] >>

OfName(items, name) ==
    LET Named(item) == item.name = name
    IN  SelectSeq(items, Named)

\* the bars laid end to end from tick 0: every bar start is a downbeat, and a
\* change of time signature is recorded at the bar where it happens
RECURSIVE BuildSong(_, _, _, _)
BuildSong(ks, bar_st, prev_sig, sg) ==
    IF ks = <<>> THEN [sg EXCEPT !.total = bar_st]
    ELSE LET kind == SongBarKinds[Head(ks)]
             items == [k \in 1..Len(kind.items) |-> Shifted(kind.items[k], bar_st)]
             tsc == IF kind.time_sig = prev_sig THEN sg.time_signature_changes
                    ELSE Append(sg.time_signature_changes,
                                [numerator |-> kind.time_sig[1],
                                 denominator |-> kind.time_sig[2], tick |-> bar_st])
         IN  BuildSong(Tail(ks), bar_st + TicksPerBar(kind.time_sig), kind.time_sig,
                       [time_signature_changes |-> tsc,
                        downbeats |-> Append(sg.downbeats, bar_st),
                        note_items |-> sg.note_items \o OfName(items, "Note"),
                        chord_items |-> sg.chord_items \o OfName(items, "Chord"),
                        tempo_items |-> sg.tempo_items \o OfName(items, "Tempo"),
                        total |-> 0])

\* the piece ends with its last note or its last change of time signature;
\* the downbeats are those before the end, the one at tick 0 always among them
Song(ks) ==
    LET sg == BuildSong(ks, 0, <<>>,
                        [time_signature_changes |-> <<>>, downbeats |-> <<>>,
                         note_items |-> <<>>, chord_items |-> <<>>, tempo_items |-> <<>>,
                         total |-> 0])
        end_tick == SetMax({sg.note_items[k].end : k \in 1..Len(sg.note_items)}
                           \cup {sg.time_signature_changes[k].tick :
                                    k \in 1..Len(sg.time_signature_changes)})
        Before(d) == d = 0 \/ d < end_tick
    IN  [midi |-> [resolution |-> Resolution,
                   time_signature_changes |-> sg.time_signature_changes,
                   downbeats |-> SelectSeq(sg.downbeats, Before),
                   end_tick |-> end_tick],
         note_items |-> sg.note_items,
         chord_items |-> sg.chord_items,
         tempo_items |-> sg.tempo_items,
         total |-> sg.total]

InitEncode ==
    /\ \E n \in 1..MaxSongBars : \E ks \in [1..n -> 1..Len(SongBarKinds)] :
          /\ song = Song(ks)
          /\ song.midi.end_tick <= song.total
    /\ remi = Idle /\ enc = Idle /\ events = Idle
    /\ polyphony_limit = DefaultPolyphonyLimit
    /\ dec = [DecIdle EXCEPT !.pc = "idle"]
    /\ chroma = Idle /\ chord = Idle /\ candidates = Idle /\ max_tick = 0 /\ dp = Idle
    /\ selected_chords = Idle /\ deduped = Idle

\* RemiPlus.__init__, line 21; bar_groups keeps the groups as they stand
\* before the trimming
GroupItems ==
    /\ remi = Idle
    /\ remi' = [midi |-> song.midi,
                groups |-> group_items(song.midi, song.note_items,
                                       song.chord_items, song.tempo_items),
                bar_groups |-> BarGroups(song.midi, song.note_items,
                                         song.chord_items, song.tempo_items)]
    /\ UNCHANGED <<events, polyphony_limit, dec, enc, chroma, chord, candidates,
                   max_tick, dp, song, selected_chords, deduped>>

EncodeFrame ==
    UNCHANGED <<polyphony_limit, dec, remi, chroma, chord, candidates,
                max_tick, dp, song, selected_chords, deduped>>

\* get_remi_events, lines 28-31: the locals; i counts the groups done, k the
\* items done in the group at hand
EncodeStart ==
    /\ remi # Idle /\ enc = Idle
    /\ enc' = [events |-> <<>>, n_downbeat |-> 0, current_chord |-> <<>>,
               current_tempo |-> <<>>, raised |-> "", i |-> 0, k |-> 0, pc |-> "bar"]
    /\ UNCHANGED events
    /\ EncodeFrame

\* lines 32-81: the head of the next bar group
EncodeBar ==
    /\ enc # Idle /\ enc.pc = "bar" /\ enc.i < Len(remi.groups)
    /\ LET group == remi.groups[enc.i + 1]
           head == BarHead(enc, group, remi.midi)
       IN  enc' = IF head.raised # "" THEN [head EXCEPT !.pc = "error"]
                  ELSE IF group.items = <<>> THEN [head EXCEPT !.i = @ + 1]
                  ELSE [head EXCEPT !.pc = "item", !.k = 0]
    /\ UNCHANGED events
    /\ EncodeFrame

\* lines 82-143: the next item of the group
EncodeItem ==
    /\ enc # Idle /\ enc.pc = "item"
    /\ LET group == remi.groups[enc.i + 1]
           e == ItemStep(enc, group.items[enc.k + 1], group.bar_st,
                         get_time_signature(remi.midi, group.bar_st),
                         remi.midi.resolution,
                         get_positions_per_bar(remi.midi, group.bar_st))
       IN  enc' = IF enc.k + 1 = Len(group.items)
                  THEN [e EXCEPT !.pc = "bar", !.i = @ + 1, !.k = 0]
                  ELSE [e EXCEPT !.k = @ + 1]
    /\ UNCHANGED events
    /\ EncodeFrame

\* line 145: the token list goes to the caller
EncodeReturn ==
    /\ enc # Idle /\ enc.pc = "bar" /\ enc.i = Len(remi.groups)
    /\ enc' = [enc EXCEPT !.pc = "done"]
    /\ events' = enc.events
    /\ EncodeFrame

NextEncode == GroupItems \/ EncodeStart \/ EncodeBar \/ EncodeItem \/ EncodeReturn

SpecEncode == InitEncode /\ [][NextEncode]_vars

\* taken step by step, the encoder ends as get_remi_events does in one piece
EncodeStepsAgree ==
    (enc # Idle /\ enc.pc \in {"done", "error"}) =>
        LET whole == get_remi_events(remi)
        IN  /\ whole.events = enc.events
            /\ whole.raised = enc.raised
            /\ whole.n_downbeat = enc.n_downbeat
            /\ whole.current_chord = enc.current_chord
            /\ whole.current_tempo = enc.current_tempo

\* the time signature in force at the start of bar group b allows no position:
\* 48 x numerator / denominator is below 1
NoPosition(b) ==
    LET time_sig == get_time_signature(remi.midi, remi.groups[b].bar_st)
    IN  DEFAULT_POS_PER_QUARTER * 4 * time_sig.numerator < time_sig.denominator

\* C16: when a bar group has no position per bar, get_remi_events never gets
\* past that group: it raises ValueError at the group's head, it does not
\* return, and the caller receives no token list.
C16_AbortsOnNoPosition ==
    (remi # Idle /\ enc # Idle) =>
        \A b \in 1..Len(remi.groups) : NoPosition(b) =>
            /\ enc.i < b
            /\ enc.pc # "done"
            /\ events = Idle
            /\ (enc.i = b - 1 /\ enc.pc # "bar") =>
                  (enc.pc = "error" /\ enc.raised = "ValueError")

\* the encoder stopped at a bar without positions after it had built the
\* tokens of an earlier bar
C16_Witness ==
    /\ remi # Idle /\ enc # Idle
    /\ enc.pc = "error" /\ enc.raised = "ValueError"
    /\ enc.i >= 1 /\ NoPosition(enc.i + 1)
    /\ Len(enc.events) > 2
    /\ events = Idle

\* bar group g holds an item of the given type that falls on position 0
Redeclares(group, name) ==
    \E k \in 1..Len(group.items) :
        /\ group.items[k].name = name
        /\ PositionIndex(group.items[k].start, group.bar_st,
                         get_time_signature(remi.midi, group.bar_st),
                         remi.midi.resolution,
                         get_positions_per_bar(remi.midi, group.bar_st)) = 0

\* the encoder passes the head of a bar group without raising
PassesBarHead ==
    /\ enc # Idle /\ enc.pc = "bar" /\ enc.i < Len(remi.groups)
    /\ enc' # enc /\ enc'.pc # "error"

\* C17: at the head of a bar, after the Bar and Time Signature tokens, the
\* pair Position_0 + Chord is written exactly when a chord is current and the
\* bar group holds no Chord item at position 0, and the pair Position_0 +
\* Tempo exactly when a tempo is current and the bar group holds no Tempo
\* item at position 0.
C17_CarryUnlessRedeclared ==
    [][PassesBarHead =>
          LET group == remi.groups[enc.i + 1]
              chord_pair ==
                  IF enc.current_chord # <<>> /\ ~Redeclares(group, "Chord")
                  THEN << Tok(POSITION_KEY, str(0)),
                          Tok(CHORD_KEY, enc.current_chord[1].pitch) >>
                  ELSE <<>>
              tempo_pair ==
                  IF enc.current_tempo # <<>> /\ ~Redeclares(group, "Tempo")
                  THEN << Tok(POSITION_KEY, str(0)),
                          Tok(TEMPO_KEY, str(ArgMinAbs(DEFAULT_TEMPO_BINS,
                                                       enc.current_tempo[1].pitch))) >>
                  ELSE <<>>
          IN  SubSeq(enc'.events, Len(enc.events) + 3, Len(enc'.events))
                  = chord_pair \o tempo_pair]_vars

\* the item the encoder is about to take
ItemAtHand == remi.groups[enc.i + 1].items[enc.k + 1]

\* the step wrote exactly a Position token and a token of the given type and value
WritesPair(key, value) ==
    /\ Len(enc'.events) = Len(enc.events) + 2
    /\ SubSeq(enc'.events, 1, Len(enc.events)) = enc.events
    /\ enc'.events[Len(enc.events) + 1].name = POSITION_KEY
    /\ enc'.events[Len(enc.events) + 2] = Tok(key, value)

\* C18: a Chord item writes Position + Chord if and only if no chord is
\* current or its label differs from the current chord's, a Tempo item writes
\* Position + Tempo if and only if no tempo is current or its BPM differs from
\* the current tempo's; an item that writes becomes the current chord or
\* tempo, and an item that does not leaves the tokens and both current values
\* as they were.
C18_EmitOnChange ==
    [][(enc # Idle /\ enc.pc = "item" /\ enc' # enc) =>
          LET item == ItemAtHand
          IN  /\ item.name = "Chord" =>
                    IF enc.current_chord = <<>> \/ item.pitch # enc.current_chord[1].pitch
                    THEN /\ WritesPair(CHORD_KEY, item.pitch)
                         /\ enc'.current_chord = <<item>>
                         /\ enc'.current_tempo = enc.current_tempo
                    ELSE /\ enc'.events = enc.events
                         /\ enc'.current_chord = enc.current_chord
                         /\ enc'.current_tempo = enc.current_tempo
              /\ item.name = "Tempo" =>
                    IF enc.current_tempo = <<>> \/ item.pitch # enc.current_tempo[1].pitch
                    THEN /\ \E idx \in 0..(Len(DEFAULT_TEMPO_BINS) - 1) :
                                WritesPair(TEMPO_KEY, str(idx))
                         /\ enc'.current_tempo = <<item>>
                         /\ enc'.current_chord = enc.current_chord
                    ELSE /\ enc'.events = enc.events
                         /\ enc'.current_chord = enc.current_chord
                         /\ enc'.current_tempo = enc.current_tempo]_vars

\* the places (group, index) of the items in the groups the encoder has finished
ItemsDone ==
    {bj \in (1..enc.i) \X (1..8) : bj[2] <= Len(remi.groups[bj[1]].items)}

DoneItem(bj) == remi.groups[bj[1]].items[bj[2]]

\* the encoder is past a Chord item and a Tempo item that wrote nothing, each
\* in a later bar than the item that is still current, and the current chord
\* had replaced an earlier one
C18_Witness ==
    /\ remi # Idle /\ enc # Idle /\ enc.pc = "done"
    /\ enc.current_chord # <<>> /\ enc.current_tempo # <<>>
    /\ \E bj \in ItemsDone :
          /\ DoneItem(bj).name = "Chord"
          /\ DoneItem(bj).pitch = enc.current_chord[1].pitch
          /\ DoneItem(bj).start > enc.current_chord[1].start
    /\ \E bj \in ItemsDone :
          /\ DoneItem(bj).name = "Tempo"
          /\ DoneItem(bj).pitch = enc.current_tempo[1].pitch
          /\ DoneItem(bj).start > enc.current_tempo[1].start
    /\ \E bj \in ItemsDone :
          /\ DoneItem(bj).name = "Chord"
          /\ DoneItem(bj).pitch # enc.current_chord[1].pitch
          /\ DoneItem(bj).start < enc.current_chord[1].start

-----------------------------------------------------------------------------
(* What group_items returns *)

\* group g holds at least one Note item
HoldsNote(g) == \E j \in 1..Len(g.items) : g.items[j].name = "Note"

\* the untrimmed groups that hold a Note
NotedGroups == {k \in 1..Len(remi.bar_groups) : HoldsNote(remi.bar_groups[k])}

\* C19: group_items returns the groups from the first one with a Note to the
\* last one with a Note, the groups without notes between them included, so
\* the list is empty or begins and ends with a group that holds a Note; for a
\* piece without notes it is empty and get_remi_events returns no token.
C19_TrimmedToNotes ==
    remi # Idle =>
        /\ IF NotedGroups = {} THEN remi.groups = <<>>
           ELSE remi.groups = SubSeq(remi.bar_groups, SetMin(NotedGroups), SetMax(NotedGroups))
        /\ remi.groups # <<>> =>
              HoldsNote(remi.groups[1]) /\ HoldsNote(remi.groups[Len(remi.groups)])
        /\ (song.note_items = <<>> /\ enc # Idle) =>
              /\ remi.groups = <<>>
              /\ enc.pc # "error" /\ enc.events = <<>>
              /\ enc.pc = "done" => events = <<>>

\* a leading group without notes was removed and a group without notes between
\* two groups with notes was kept
C19_Witness ==
    /\ remi # Idle
    /\ Len(remi.bar_groups) >= 4
    /\ ~HoldsNote(remi.bar_groups[1])
    /\ Len(remi.groups) = Len(remi.bar_groups) - 1
    /\ \E k \in 2..(Len(remi.groups) - 1) : ~HoldsNote(remi.groups[k])

\* the items handed to group_items
AllItems == song.chord_items \o song.tempo_items \o song.note_items

SameItem(x, y) ==
    /\ x.name = y.name /\ x.start = y.start /\ x.pitch = y.pitch
    /\ x.name = "Note" =>
          x.end = y.end /\ x.velocity = y.velocity /\ x.instrument = y.instrument

\* the places (group, index) where item x stands in the untrimmed groups
PlacesOf(x) ==
    {kj \in (1..Len(remi.bar_groups)) \X (1..Len(AllItems)) :
        /\ kj[2] <= Len(remi.bar_groups[kj[1]].items)
        /\ SameItem(remi.bar_groups[kj[1]].items[kj[2]], x)}

\* the downbeat ticks followed by the tick of the piece's end
Boundaries == Append(song.midi.downbeats, song.midi.end_tick)

\* C20: before trimming there is one group per downbeat, from that downbeat to
\* the next boundary, holding only items of the piece; and every item that
\* starts at or after the first downbeat and before the piece's end stands in
\* exactly one place, in the group whose half-open range holds its start.
C20_Bucketing ==
    remi # Idle =>
        /\ Len(remi.bar_groups) = Len(Boundaries) - 1
        /\ \A k \in 1..Len(remi.bar_groups) :
              /\ remi.bar_groups[k].bar_st = Boundaries[k]
              /\ remi.bar_groups[k].bar_et = Boundaries[k + 1]
              /\ \A j \in 1..Len(remi.bar_groups[k].items) :
                    \E n \in 1..Len(AllItems) :
                        SameItem(AllItems[n], remi.bar_groups[k].items[j])
        /\ \A n \in 1..Len(AllItems) :
              (Boundaries[1] <= AllItems[n].start
               /\ AllItems[n].start < song.midi.end_tick) =>
                  /\ Cardinality(PlacesOf(AllItems[n])) = 1
                  /\ \A kj \in PlacesOf(AllItems[n]) :
                        /\ Boundaries[kj[1]] <= AllItems[n].start
                        /\ AllItems[n].start < Boundaries[kj[1] + 1]

\* three groups or more, an item that starts exactly on the third downbeat,
\* and an item at or after the piece's end that stands in no group
C20_Witness ==
    /\ remi # Idle /\ Len(remi.bar_groups) >= 3
    /\ \E n \in 1..Len(AllItems) :
          /\ AllItems[n].start = Boundaries[3]
          /\ \E kj \in PlacesOf(AllItems[n]) : kj[1] = 3
    /\ \E n \in 1..Len(AllItems) :
          AllItems[n].start >= song.midi.end_tick /\ PlacesOf(AllItems[n]) = {}

-----------------------------------------------------------------------------
(* utils.quantize_items *)

\* One pass of the loop of quantize_items over one item.  grids is
\* np.arange(0, max(resolution, end_tick), resolution / DEFAULT_POS_PER_QUARTER):
\* its point k is k * resolution / DEFAULT_POS_PER_QUARTER, for k below the
\* quotient rounded up.  index is np.searchsorted(grids, start, side='right'),
\* the number of points at or before start, less one when positive; the shift
\* is round(grids[index]) - start.
QuantizeItem(midi, item) ==
    LET stop == IF midi.resolution > midi.end_tick THEN midi.resolution ELSE midi.end_tick
        n_grids == (stop * DEFAULT_POS_PER_QUARTER + midi.resolution - 1) \div midi.resolution
        found == Cardinality({k \in 0..(n_grids - 1) :
                                k * midi.resolution <= item.start * DEFAULT_POS_PER_QUARTER})
        index == IF found > 0 THEN found - 1 ELSE found
        shift == RoundHalfEven(index * midi.resolution, DEFAULT_POS_PER_QUARTER) - item.start
    IN  [item EXCEPT !.start = @ + shift, !.end = @ + shift]

quantize_items(midi, note_items) ==
    [n \in 1..Len(note_items) |-> QuantizeItem(midi, note_items[n])]

MaxQuantNotes == 2
MaxQuantTick == 7
MaxQuantLen == 2
MaxQuantPasses == 2

\* resolutions of the quantized pieces: 12 and 24 give a grid of 1 and 2
\* ticks, 16 a grid of one tick and a third
QuantResolutions == {12, 16, 24}

QuantNotes ==
    {NoteItem(s, s + l, 64, 60, 0) : s \in 0..MaxQuantTick, l \in 1..MaxQuantLen}

\* the end tick of a piece is the end of its last note
QuantEnd(notes) ==
    IF notes = <<>> THEN 0 ELSE SetMax({notes[n].end : n \in 1..Len(notes)})

InitQuantize ==
    /\ \E r \in QuantResolutions :
       \E notes \in UNION {[1..n -> QuantNotes] : n \in 0..MaxQuantNotes} :
          song = [midi |-> [resolution |-> r, end_tick |-> QuantEnd(notes)],
                  note_items |-> notes, passes |-> 0]
    /\ selected_chords = Idle /\ deduped = Idle
    /\ events = Idle /\ polyphony_limit = 0 /\ dec = Idle /\ remi = Idle /\ enc = Idle
    /\ chroma = Idle /\ chord = Idle /\ candidates = Idle /\ max_tick = 0 /\ dp = Idle

\* quantize_items applied to the note items of the piece, in place
Quantize ==
    /\ song.passes < MaxQuantPasses
    /\ song' = [song EXCEPT !.note_items = quantize_items(song.midi, @),
                            !.passes = @ + 1]
    /\ UNCHANGED <<events, polyphony_limit, dec, remi, enc, chroma, chord,
                   candidates, max_tick, dp, selected_chords, deduped>>

NextQuantize == Quantize

SpecQuantize == InitQuantize /\ [][NextQuantize]_vars

\* C21: a pass of quantize_items moves every note's start to the largest grid
\* point k * resolution / DEFAULT_POS_PER_QUARTER at or before it, so the
\* start moves back by less than the grid spacing, and moves its end by the
\* same amount; a second pass changes nothing.
C21_QuantizeToGrid ==
    [][song'.passes = song.passes + 1 =>
          /\ \A n \in 1..Len(song.note_items) :
                LET old == song.note_items[n]
                    new == song'.note_items[n]
                    k == (old.start * DEFAULT_POS_PER_QUARTER) \div song.midi.resolution
                IN  /\ new.start * DEFAULT_POS_PER_QUARTER = k * song.midi.resolution
                    /\ 0 <= old.start - new.start
                    /\ (old.start - new.start) * DEFAULT_POS_PER_QUARTER < song.midi.resolution
                    /\ new.end - new.start = old.end - old.start
          /\ song.passes >= 1 => song'.note_items = song.note_items]_vars

\* the parts of C21 that the code keeps at every resolution: the start moves
\* back by less than the grid spacing and the length is unchanged
C21_ShiftKeepsLength ==
    [][song'.passes = song.passes + 1 =>
          \A n \in 1..Len(song.note_items) :
              LET old == song.note_items[n]
                  new == song'.note_items[n]
              IN  /\ 0 <= old.start - new.start
                  /\ (old.start - new.start) * DEFAULT_POS_PER_QUARTER < song.midi.resolution
                  /\ new.end - new.start = old.end - old.start]_vars

-----------------------------------------------------------------------------
(* chord_recognition.extract, extract_chords and RemiPlus.__init__ *)

\* the tick of beat index b: the beats of the modelled pieces are the quarter
\* notes of a piece in 4/4 at one tempo, the first at tick 0
BeatTick(midi, b) == b * midi.resolution

\* extract, lines 226-231: beat indices mapped to ticks; an end index at or
\* past len(beats) is the piece's end
MappedChords(midi, n_beats, unique_chords) ==
    [k \in 1..Len(unique_chords) |->
        << BeatTick(midi, unique_chords[k][1]),
           IF unique_chords[k][2] >= n_beats THEN midi.end_tick
           ELSE BeatTick(midi, unique_chords[k][2]),
           unique_chords[k][3] >>]

\* extract, lines 212-233: the deduped segments of the best path
Extracted(midi, n_beats, selected) ==
    [raised |-> selected.raised,
     mapped_chords |-> MappedChords(midi, n_beats, dedupe(selected.results))]

extract(midi, chr) ==
    Extracted(midi, Len(chr), dynamic(get_candidates(chr, Len(chr)), Len(chr)))

\* chord[2].split('/')[0]: the label without its bass
StripBass(label) == SubSeq(label, 1, 2)

NoChordLabel == <<"N", "N">>

\* lines 255-265: a leading N:N item when there is no item or the first one
\* starts after tick 0
WithLeadingNoChord(output, end_tick) ==
    IF output = <<>> \/ output[1].start > 0
    THEN <<ChordItem(0, IF output # <<>> THEN output[1].start ELSE end_tick, NoChordLabel)>>
         \o output
    ELSE output

\* lines 244-266: the raw chords as Chord items, the bass stripped from
\* their labels, behind the leading N:N item if one is due
ChordItems(raw_chords, end_tick) ==
    IF raw_chords.raised # "" THEN [raised |-> raw_chords.raised, items |-> <<>>]
    ELSE [raised |-> "",
          items |-> WithLeadingNoChord(
                        [k \in 1..Len(raw_chords.mapped_chords) |->
                            ChordItem(raw_chords.mapped_chords[k][1],
                                      raw_chords.mapped_chords[k][2],
                                      StripBass(raw_chords.mapped_chords[k][3]))],
                        end_tick)]

extract_chords_NoShortPiece(midi, chr) ==
    ChordItems(extract(midi, chr), midi.end_tick)

\* extract_chords, lines 236-266
extract_chords(midi, chr) ==
    IF midi.end_tick < midi.resolution THEN [raised |-> "", items |-> <<>>]
    ELSE ChordItems(extract(midi, chr), midi.end_tick)

\* the beats of the constructed pieces: silence, D minor over a C sharp,
\* D minor alone, C major
ExtractColumns ==
    { Column({}, 0),
      Column({1, 2, 5, 9}, Loud),
      Column({2, 5, 9}, Loud),
      Column({0, 4, 7}, Loud) }

\* the note items of a piece whose beats sound the pitch classes of chr: one
\* note per beat and pitch class, cut at the piece's end
BeatNotes(chr, resolution, end_tick) ==
    LET cells == [i \in 1..(12 * Len(chr)) |-> [beat |-> (i - 1) \div 12, pc |-> (i - 1) % 12]]
        Sounds(c) == chr[c.beat + 1][c.pc] > 0
        sounding == SelectSeq(cells, Sounds)
    IN  [k \in 1..Len(sounding) |->
            NoteItem(sounding[k].beat * resolution,
                     Min((sounding[k].beat + 1) * resolution, end_tick),
                     chr[sounding[k].beat + 1][sounding[k].pc],
                     60 + sounding[k].pc, 0)]

\* a piece in 4/4 of Len(chr) beats that ends at end_tick
ExtractPiece(chr, end_tick) ==
    [midi |-> [resolution |-> Resolution,
               time_signature_changes |-> <<[numerator |-> 4, denominator |-> 4, tick |-> 0]>>,
               downbeats |-> [j \in 1..((Len(chr) + 3) \div 4) |-> (j - 1) * 4 * Resolution],
               end_tick |-> end_tick],
     note_items |-> BeatNotes(chr, Resolution, end_tick),
     tempo_items |-> <<TempoItem(0, 120)>>]

InitExtract ==
    /\ chroma \in UNION {[1..n -> ExtractColumns] : n \in 1..MaxBeats}
    /\ \E end_tick \in {Len(chroma) * Resolution, Len(chroma) * Resolution - Resolution \div 2},
          do_extract_chords \in BOOLEAN, strict \in BOOLEAN :
          song = [piece |-> ExtractPiece(chroma, end_tick),
                  do_extract_chords |-> do_extract_chords, strict |-> strict]
    /\ max_tick = Len(chroma)
    /\ candidates = Idle /\ dp = Idle /\ chord = Idle
    /\ selected_chords = Idle /\ deduped = Idle
    /\ events = Idle /\ polyphony_limit = 0 /\ dec = Idle /\ remi = Idle /\ enc = Idle

\* RemiPlus.__init__, lines 11-24: chord_items is assigned only when
\* do_extract_chords is set, and reading it at line 21 raises AttributeError
\* otherwise; the strict refusal of a piece without notes comes last
Constructed(piece, ex, strict) ==
    IF ex.raised # ""
    THEN [midi |-> piece.midi, note_items |-> piece.note_items,
          tempo_items |-> piece.tempo_items, chord_items |-> <<>>,
          groups |-> <<>>, raised |-> ex.raised]
    ELSE [midi |-> piece.midi, note_items |-> piece.note_items,
          tempo_items |-> piece.tempo_items, chord_items |-> ex.items,
          groups |-> group_items(piece.midi, piece.note_items, ex.items,
                                 piece.tempo_items),
          raised |-> IF strict /\ Len(piece.note_items) = 0 THEN "ValueError" ELSE ""]

RemiPlus(piece, chr, do_extract_chords, strict) ==
    Constructed(piece,
                IF do_extract_chords THEN extract_chords(piece.midi, chr)
                ELSE [raised |-> "AttributeError", items |-> <<>>],
                strict)

RemiPlusInit ==
    /\ remi = Idle
    /\ remi' = RemiPlus(song.piece, chroma, song.do_extract_chords, song.strict)
    /\ UNCHANGED <<events, polyphony_limit, dec, enc, chroma, chord, candidates,
                   max_tick, dp, song, selected_chords, deduped>>

NextExtract == RemiPlusInit

SpecExtract == InitExtract /\ [][NextExtract]_vars

\* the constructor ran extract_chords and it returned
ChordsReturned == remi # Idle /\ song.do_extract_chords /\ remi.raised # "AttributeError"

\* C22: extract_chords returns the empty list for a piece whose end tick is
\* below the resolution; for any other piece it returns a list that is not
\* empty and whose first item starts at tick 0, which is the detected chords
\* behind an N:N item from 0 to the first detected start (or to the end tick
\* when nothing was detected) when the first detected chord does not start
\* at tick 0, and the detected chords alone otherwise.
C22_ShortPieceOrFromZero ==
    ChordsReturned =>
        IF remi.midi.end_tick < remi.midi.resolution THEN remi.chord_items = <<>>
        ELSE /\ remi.chord_items # <<>>
             /\ remi.chord_items[1].start = 0
             /\ LET detected == extract(remi.midi, chroma).mapped_chords
                    lead == Len(remi.chord_items) - Len(detected)
                IN  /\ lead = IF detected = <<>> \/ detected[1][1] > 0 THEN 1 ELSE 0
                    /\ lead = 1 =>
                          /\ remi.chord_items[1].pitch = NoChordLabel
                          /\ remi.chord_items[1].end =
                                IF detected = <<>> THEN remi.midi.end_tick ELSE detected[1][1]
                    /\ \A k \in 1..Len(detected) :
                          /\ remi.chord_items[k + lead].start = detected[k][1]
                          /\ remi.chord_items[k + lead].end = detected[k][2]
                          /\ remi.chord_items[k + lead].pitch = StripBass(detected[k][3])

\* a piece of several beats whose chords were extracted: two items or more,
\* the first at tick 0, the last ending at the piece's end
C22_Witness ==
    /\ ChordsReturned
    /\ remi.midi.end_tick >= 2 * remi.midi.resolution
    /\ Len(remi.chord_items) >= 2
    /\ remi.chord_items[1].start = 0
    /\ remi.chord_items[Len(remi.chord_items)].end = remi.midi.end_tick

\* a short piece with notes: no chord item
C22_ShortWitness ==
    /\ ChordsReturned
    /\ remi.midi.end_tick < remi.midi.resolution
    /\ remi.note_items # <<>> /\ remi.chord_items = <<>>

\* C27: in the list returned by extract_chords no two consecutive items carry
\* the same label.
C27_NoRepeatedLabel ==
    ChordsReturned =>
        \A k \in 1..(Len(remi.chord_items) - 1) :
            remi.chord_items[k].pitch # remi.chord_items[k + 1].pitch

\* C23: when chords are absent, because extraction is switched off or because
\* it returned the empty list, the constructor finishes without raising (the
\* strict refusal of a piece without notes aside) and the bar groups are the
\* groups of the tempo items and the note items alone.
C23_GroupsWithoutChords ==
    (/\ remi # Idle
     /\ ~(song.strict /\ song.piece.note_items = <<>>)
     /\ \/ ~song.do_extract_chords
        \/ extract_chords(song.piece.midi, chroma).items = <<>>) =>
        /\ remi.raised = ""
        /\ remi.groups = TrimGroups(BarGroups(remi.midi, remi.note_items, <<>>, remi.tempo_items))
        /\ \A k \in 1..Len(remi.groups) : \A j \in 1..Len(remi.groups[k].items) :
              remi.groups[k].items[j].name # "Chord"

\* the half of C23 that the code keeps: extraction ran and returned the empty
\* list
C23_EmptyExtraction ==
    (/\ remi # Idle
     /\ ~(song.strict /\ song.piece.note_items = <<>>)
     /\ song.do_extract_chords
     /\ extract_chords(song.piece.midi, chroma).items = <<>>) =>
        /\ remi.raised = ""
        /\ remi.groups = TrimGroups(BarGroups(remi.midi, remi.note_items, <<>>, remi.tempo_items))

-----------------------------------------------------------------------------
(* The order of the items inside a bar group *)

\* the instrument part of an item's key
InstrumentKey(item) == IF item.instrument = DrumInstrument THEN 0 - 1 ELSE item.instrument

\* item a may stand directly before item b in a list sorted by
\* (start tick, type priority, instrument key, pitch)
InKeyOrder(a, b) ==
    \/ a.start < b.start
    \/ /\ a.start = b.start
       /\ \/ TypePriority(a.name) < TypePriority(b.name)
          \/ /\ a.name = b.name
             /\ CASE a.name = "Note" ->
                        \/ InstrumentKey(a) < InstrumentKey(b)
                        \/ InstrumentKey(a) = InstrumentKey(b) /\ a.pitch <= b.pitch
                  [] a.name = "Tempo" -> a.pitch <= b.pitch
                  [] OTHER -> LabelRank(a.pitch) <= LabelRank(b.pitch)

\* C24: inside every bar group, before and after trimming, the items stand in
\* non-decreasing order of (start tick, type priority, instrument key, pitch);
\* of two items with the same start tick a Chord stands before a Tempo and a
\* Tempo before a Note, and a drum note before a note of a program instrument.
C24_ItemsInKeyOrder ==
    remi # Idle =>
        \A gs \in {remi.bar_groups, remi.groups} :
        \A g \in 1..Len(gs) :
            LET items == gs[g].items
            IN  /\ \A j \in 1..(Len(items) - 1) : InKeyOrder(items[j], items[j + 1])
                /\ \A j \in 1..Len(items) : \A k \in (j + 1)..Len(items) :
                      items[j].start = items[k].start =>
                          /\ items[k].name = "Chord" => items[j].name = "Chord"
                          /\ items[k].name = "Tempo" => items[j].name # "Note"
                          /\ (items[j].name = "Note" /\ items[k].name = "Note"
                              /\ items[k].instrument = DrumInstrument) =>
                                 items[j].instrument = DrumInstrument

\* a group that begins with a Chord, a Tempo, a drum note and a program note
\* on one tick, of a piece whose note list has the program note first
C24_Witness ==
    /\ remi # Idle /\ remi.groups # <<>>
    /\ \E g \in 1..Len(remi.groups) :
          LET items == remi.groups[g].items
          IN  /\ Len(items) >= 4
              /\ items[1].name = "Chord" /\ items[2].name = "Tempo"
              /\ items[3].name = "Note" /\ items[3].instrument = DrumInstrument
              /\ items[4].name = "Note" /\ items[4].instrument # DrumInstrument
              /\ items[1].start = items[4].start
              /\ \E m \in 1..Len(song.note_items) : \E n \in (m + 1)..Len(song.note_items) :
                    /\ SameItem(song.note_items[m], items[4])
                    /\ SameItem(song.note_items[n], items[3])

-----------------------------------------------------------------------------
(* What a token of the stream may change in the decoder *)

\* the step leaves the bar counter, the reference frame, the recorded time
\* signatures, the admitted-note counts, the instrument table and the note
\* lists as they were
DecodedSame ==
    /\ dec'.bar = dec.bar
    /\ dec'.last_tl_event = dec.last_tl_event
    /\ dec'.time_signature_changes = dec.time_signature_changes
    /\ dec'.polyphony_control = dec.polyphony_control
    /\ dec'.n_notes = dec.n_notes
    /\ dec'.instruments = dec.instruments

\* the Time Signature token behind the Bar token at hand names the frame's
\* signature
SameTimeSignature ==
    /\ dec.i + 1 < Len(events)
    /\ Ev(events, dec.i + 1).name = TIME_SIGNATURE_KEY
    /\ Ev(events, dec.i + 1).value = << str(dec.last_tl_event.time_sig.numerator),
                                        str(dec.last_tl_event.time_sig.denominator) >>

\* the Tempo token behind the Position token at hand names the frame's tempo
SameTempo ==
    /\ IsInt(LastPiece(Ev(events, dec.i))) /\ IsInt(LastPiece(Ev(events, dec.i + 1)))
    /\ InRange(DEFAULT_TEMPO_BINS, int(LastPiece(Ev(events, dec.i + 1))))
    /\ At(DEFAULT_TEMPO_BINS, int(LastPiece(Ev(events, dec.i + 1)))) = dec.last_tl_event.tempo

\* C25: a token of the scan that is no Bar token, no Position token directly
\* followed by a Tempo token and no Position token heading a complete
\* Instrument/Pitch/Velocity/Duration group changes nothing of what is decoded,
\* and so does every Chord token; a Tempo pattern naming the frame's tempo
\* changes nothing either, and a Bar token followed by the frame's own time
\* signature leaves the reference frame and the recorded signatures alone.
C25_SkippedTokensChangeNothing ==
    [][(dec.pc = "scan" /\ dec.i < Len(events)) =>
          /\ (~AtBar(dec, events) /\ ~AtTempo(dec, events) /\ ~AtNote(dec, events))
                => DecodedSame
          /\ Ev(events, dec.i).name = CHORD_KEY => DecodedSame
          /\ (~AtBar(dec, events) /\ AtTempo(dec, events) /\ SameTempo) => DecodedSame
          /\ (AtBar(dec, events) /\ SameTimeSignature) =>
                /\ dec'.last_tl_event = dec.last_tl_event
                /\ dec'.time_signature_changes = dec.time_signature_changes]_vars

\* a finished decoding of a stream with a Chord token, a Tempo pattern that
\* names the tempo in force and a note: the frame is still the initial one
C25_Witness ==
    /\ dec.pc = "done" /\ dec.n_notes >= 1
    /\ \E k \in 1..Len(events) : events[k].name = CHORD_KEY
    /\ \E k \in 1..Len(events) : events[k].name = TEMPO_KEY
    /\ dec.last_tl_event.time = 0 /\ dec.last_tl_event.pos = <<0, 0>>
    /\ dec.last_tl_event.tempo = dec.initial_tempo
    /\ dec.last_tl_event.tempo # DefaultBpm

-----------------------------------------------------------------------------
(* Continuity of the reference frame *)

\* the start times of the notes decoded so far
NoteStarts(d) ==
    UNION {{d.instruments[k].notes[n].start : n \in 1..Len(d.instruments[k].notes)} :
              k \in 1..Len(d.instruments)}

\* the Position tokens of one bar of the stream carry numerals that do not
\* decrease
PositionsAscend(evs) ==
    \A j \in 0..(Len(evs) - 1) : \A k \in j..(Len(evs) - 1) :
        (/\ Ev(evs, j).name = POSITION_KEY /\ Ev(evs, k).name = POSITION_KEY
         /\ BarAt(evs, j) = BarAt(evs, k)) =>
            /\ IsInt(LastPiece(Ev(evs, j))) /\ IsInt(LastPiece(Ev(evs, k)))
            /\ int(LastPiece(Ev(evs, j))) <= int(LastPiece(Ev(evs, k)))

====
